---- MODULE Spec2Model ----
(***************************************************************************)
(* Model of the rug-pull detector core: score fusion                       *)
(* (backend/modules/h_ml_risk_scorer.py), the honeypot simulator           *)
(* (backend/modules/i_honeypot_simulator.py) and the module orchestrator   *)
(* (backend/services/analysis_orchestrator.py).                            *)
(*                                                                         *)
(* Conventions.                                                            *)
(*  - Python strings that the code searches are sequences of one-character *)
(*    strings; a non-ASCII code point is one element named "U+XXXX".       *)
(*  - Python floats are exact rationals [n, d] with d > 0; values that the *)
(*    code rounds with round(x, 2) are integers counting hundredths        *)
(*    (75.0 is 7500).  Floating-point representation error is not          *)
(*    modelled.                                                            *)
(*  - A Python exception leaving a function is the field exc = TRUE of the *)
(*    value the operator returns.                                          *)
(***************************************************************************)
EXTENDS Integers, Sequences, FiniteSets, TLC

VARIABLES
    pc,              \* position of the request being served
    module_results,  \* Dict[str, Dict]: module name -> module result
    ensemble,        \* behaviour of ml_scorer.ensemble_model for this request
    ml_result,       \* what h_ml_risk_scorer.predict returned (or that it raised)
    mod_idx,         \* _run_modules: index of the next analyzer in self.modules
    analyzers,       \* what each analyzer's analyze() does when it is awaited
    hp_env,          \* honeypot simulator: what the chain answers to each call
    hp,              \* honeypot simulator: locals of analyze()
    client,          \* what blockchain.get_contract_info does for this request
    contract_info,   \* orchestrator.analyze: the ContractInfo of step 1
    features,        \* orchestrator.analyze: the dict _extract_features returned
    honeypot_result, \* orchestrator.analyze: the honeypot result of step 2.5
    response,        \* orchestrator.analyze: the dict it returns (or that it raised)
    active_connections, \* WebSocketManager: Dict[str, List[WebSocket]]
    monitoring_status,  \* WebSocketManager: Dict[str, Dict]
    monitor_tasks,      \* WebSocketManager: Dict[str, asyncio.Task]
    running_tasks,      \* per address, the monitor tasks created and not cancelled
    ws_last,            \* the last call made on the WebSocketManager
    requests,           \* RateLimitMiddleware: client ip -> recorded request times
    last_cleanup,       \* RateLimitMiddleware: time of the last _cleanup
    now,                \* datetime.now(), in seconds
    recent_forwards,    \* per client ip, the forwarded requests of the last minute
    last_response       \* what the client got for its last request

vars == <<pc, module_results, ensemble, ml_result, mod_idx, analyzers, hp_env, hp,
          client, contract_info, features, honeypot_result, response,
          active_connections, monitoring_status, monitor_tasks, running_tasks, ws_last,
          requests, last_cleanup, now, recent_forwards, last_response>>

\* the state of one analysis request
core_vars == <<pc, module_results, ensemble, ml_result, mod_idx, analyzers, hp_env, hp,
               client, contract_info, features, honeypot_result, response>>

\* the state of the WebSocketManager
ws_vars == <<active_connections, monitoring_status, monitor_tasks, running_tasks, ws_last>>

\* the state of the RateLimitMiddleware and its clock
rl_vars == <<requests, last_cleanup, now, recent_forwards, last_response>>

\* a dict without entries
NoEntries == <<>>

\* no call made yet on the WebSocketManager
NoCall == [op |-> "none", address |-> "", emptied |-> FALSE]

\* no request answered yet
NoRequest == [client_ip |-> "", path |-> "", status |-> 0,
              forwarded |-> FALSE, recorded |-> FALSE, rejected |-> FALSE]

\* WebSocketManager.__init__
WebSocketManagerInit ==
    /\ active_connections = NoEntries
    /\ monitoring_status = NoEntries
    /\ monitor_tasks = NoEntries
    /\ running_tasks = NoEntries
    /\ ws_last = NoCall

\* RateLimitMiddleware.__init__, at time 0
RateLimitMiddlewareInit ==
    /\ requests = NoEntries
    /\ last_cleanup = 0
    /\ now = 0
    /\ recent_forwards = NoEntries
    /\ last_response = NoRequest

-----------------------------------------------------------------------------
(* Text *)

NeedleBytecode ==
    <<"b","y","t","e","c","o","d","e">>
NeedleObfuscated ==
    <<"o","b","f","u","s","c","a","t","e","d">>
NeedleSkipped ==
    <<"s","k","i","p","p","e","d">>
WarnZeroRisk1 ==
    <<"U+1F6A8"," ","C","R","I","T","I","C","A","L",":"," ","C","o","n","t","r","a","c","t"," ","b","y","t","e","c","o","d","e"," ","u","n","a","v","a","i","l","a","b","l","e"," ","o","r"," ","o","b","f","u","s","c","a","t","e","d">>
WarnZeroRisk2 ==
    <<"U+26A0","U+FE0F"," ","C","a","n","n","o","t"," ","v","e","r","i","f","y"," ","c","o","n","t","r","a","c","t"," ","s","a","f","e","t","y"," ","-"," ","H","I","G","H"," ","R","I","S","K">>
ModuleFailedPrefix ==
    <<"M","o","d","u","l","e"," ","f","a","i","l","e","d",":"," ">>
\* sample warnings an analyzer can return
WarnNoBytecode ==
    <<"U+1F6A8"," ","C","o","n","t","r","a","c","t"," ","b","y","t","e","c","o","d","e"," ","n","o","t"," ","f","o","u","n","d"," ","-"," ","p","o","s","s","i","b","l","e"," ","E","O","A"," ","o","r"," ","f","a","k","e"," ","c","o","n","t","r","a","c","t">>
WarnOwner ==
    <<"O","w","n","e","r"," ","c","a","n"," ","m","i","n","t">>
WarnObfuscatedUpper ==
    <<"C","o","d","e"," ","O","B","F","U","S","C","A","T","E","D">>
\* the warning contract_security returns with risk 0 for a whitelisted contract
WarnVerifiedSafe ==
    <<"U+2713"," ","V","e","r","i","f","i","e","d"," ","s","a","f","e"," ","c","o","n","t","r","a","c","t",":"," ","U","S","D","T">>
\* sample exception text
ErrTimeout ==
    <<"R","P","C"," ","t","i","m","e","o","u","t">>

UpperCase ==
    <<"A","B","C","D","E","F","G","H","I","J","K","L","M","N","O","P","Q","R","S","T","U","V","W","X","Y","Z">>
LowerCase ==
    <<"a","b","c","d","e","f","g","h","i","j","k","l","m","n","o","p","q","r","s","t","u","v","w","x","y","z">>

\* str.lower() on one character
lower_char(c) ==
    IF \E i \in 1..Len(UpperCase) : UpperCase[i] = c
    THEN LowerCase[CHOOSE i \in 1..Len(UpperCase) : UpperCase[i] = c]
    ELSE c

\* str.lower()
lower(s) == [i \in 1..Len(s) |-> lower_char(s[i])]

\* Python's  needle in hay  for strings
str_in(needle, hay) ==
    \E i \in 1..(Len(hay) - Len(needle) + 1) :
        SubSeq(hay, i, i + Len(needle) - 1) = needle

-----------------------------------------------------------------------------
(* Numbers *)

Rat(n, d) == [n |-> n, d |-> d]
RatInt(k) == Rat(k, 1)
RatEq(a, b) == a.n * b.d = b.n * a.d
RatLT(a, b) == a.n * b.d < b.n * a.d
RatGT(a, b) == RatLT(b, a)
RatSub(a, b) == Rat(a.n * b.d - b.n * a.d, a.d * b.d)
RatAbs(a) == Rat(IF a.n < 0 THEN -a.n ELSE a.n, a.d)
\* (p*a + q*b) / 10, the value of  0.p * a + 0.q * b
RatMix(p, a, q, b) == Rat(p * a.n * b.d + q * b.n * a.d, 10 * a.d * b.d)

\* round(x, 2), in hundredths; ties go to the even hundredth
round2(x) ==
    LET num == 100 * x.n
        q   == num \div x.d
        r   == num - q * x.d
    IN  IF 2 * r < x.d THEN q
        ELSE IF 2 * r > x.d THEN q + 1
        ELSE IF q % 2 = 0 THEN q ELSE q + 1

-----------------------------------------------------------------------------
(* Module results *)

\* a value stored under "risk_score": a number, no such key, or not a number
Num(v) == [kind |-> "num", val |-> v]
NoKey == [kind |-> "absent", val |-> 0]
NotNum == [kind |-> "notnum", val |-> 0]

\* a value stored under "warnings": a list, no such key, or None
WList(items) == [kind |-> "list", items |-> items]
WNoKey == [kind |-> "absent", items |-> <<>>]
WNone == [kind |-> "none", items |-> <<>>]

\* a value stored under "features": a dict (a function from keys to values) or
\* no such key
FMap(m) == [kind |-> "map", map |-> m]
FNoKey == [kind |-> "absent", map |-> {}]

\* a value stored under "error": the text of an exception, or no such key
ErrorText(text) == [present |-> TRUE, text |-> text]
NoError == [present |-> FALSE, text |-> <<>>]

MkResult(risk, warnings, feats, error) ==
    [risk |-> risk, warnings |-> warnings, features |-> feats, error |-> error]

\* the {} default of  module_results.get(name, {})
EmptyDict == MkResult(NoKey, WNoKey, FNoKey, NoError)

\* what awaiting module.analyze(address, self.blockchain) does: it returns a
\* result dict, or it raises an Exception whose str() is text
AnalyzerReturns(result) == [kind |-> "returns", result |-> result, text |-> <<>>]
AnalyzerRaises(text) == [kind |-> "raises", result |-> EmptyDict, text |-> text]
AnalyzersIdle == <<>>

\* the empty dict that _extract_features starts from
NoFeatures == [k \in {} |-> 0]

\* blockchain.get_contract_info(address): it returns the token's info, or raises
ClientIdle == [get_contract_info |-> "returns"]

\* the ContractInfo of the response: filled from the chain, or address and
\* chain only
NoContractInfo == "not fetched"

\* a honeypot result as the orchestrator holds it: the top-level keys error
\* and verdict, data["verdict"] and data["verdict_confidence"] (or no such
\* key), risk_score (-1: no such key) and warnings
NoSuchKey == "(no such key)"
HoneypotData(verdict, verdict_confidence) ==
    [verdict |-> verdict, verdict_confidence |-> verdict_confidence]
HoneypotResult(error, verdict, data, risk_score, warnings) ==
    [error |-> error, verdict |-> verdict, data |-> data,
     risk_score |-> risk_score, warnings |-> warnings]
NoHoneypotResult ==
    HoneypotResult(NoError, NoSuchKey, HoneypotData(NoSuchKey, NoSuchKey), -1, <<>>)

\* the value of analyze: the response dict, or the exception it re-raises
Response(exc, fields) == [exc |-> exc, fields |-> fields]
NoResponse == Response(FALSE, <<>>)

\* module_results.get(name, {})
mr_get(mr, name) == IF name \in DOMAIN mr THEN mr[name] ELSE EmptyDict

\* result.get("risk_score", default)
risk_get(result, default) ==
    IF result.risk.kind = "absent" THEN Num(default) ELSE result.risk

\* the iteration order of module_results.items(): insertion order, which for
\* the orchestrator is the order of self.modules; other names come after
ModuleOrder ==
    <<"contract_security", "holder_analysis", "liquidity_pool",
      "transfer_anomaly", "pattern_matching", "tokenomics">>
\* names of analyzers that are not in the weight tables
OtherOrder == <<"whale_detector", "social_sentiment", "audit_lookup">>

AllNames == {(ModuleOrder \o OtherOrder)[i] : i \in 1..(Len(ModuleOrder) + Len(OtherOrder))}

\* list(mr.keys()) in iteration order
keys_in_order(mr) ==
    SelectSeq(ModuleOrder \o OtherOrder, LAMBDA name : name \in DOMAIN mr)

-----------------------------------------------------------------------------
(* Score fusion: h_ml_risk_scorer.py *)

\* The three weight dictionaries of the file, with the 1.0 of .get(name, 1.0)
\* for the names they do not list.  Weights are stored doubled so
\* that 2.5 and 1.5 are integers; every use divides a weighted sum by a sum of
\* weights, which the doubling leaves unchanged.
fallback_weights ==
    [name \in AllNames |->
    CASE name = "contract_security" -> 6
      [] name = "liquidity_pool" -> 5
      [] name = "holder_analysis" -> 4
      [] name = "transfer_anomaly" -> 3
      [] name = "pattern_matching" -> 2
      [] name = "tokenomics" -> 2
      [] OTHER -> 2]

\* variant: liquidity_pool weighted 2.0 instead of 2.5
module_weights_liquidity_two ==
    [name \in AllNames |->
    CASE name = "contract_security" -> 6
      [] name = "liquidity_pool" -> 4
      [] name = "holder_analysis" -> 4
      [] name = "transfer_anomaly" -> 3
      [] name = "pattern_matching" -> 2
      [] name = "tokenomics" -> 2
      [] OTHER -> 2]

module_weights ==
    [name \in AllNames |->
    CASE name = "contract_security" -> 6
      [] name = "liquidity_pool" -> 5
      [] name = "holder_analysis" -> 4
      [] name = "transfer_anomaly" -> 3
      [] name = "pattern_matching" -> 2
      [] name = "tokenomics" -> 2
      [] OTHER -> 2]

except_weights ==
    [name \in AllNames |->
    CASE name = "contract_security" -> 6
      [] name = "liquidity_pool" -> 5
      [] name = "holder_analysis" -> 4
      [] name = "transfer_anomaly" -> 3
      [] name = "pattern_matching" -> 2
      [] name = "tokenomics" -> 2
      [] OTHER -> 2]

\* for module_name, result in module_results.items():
\*     score = result.get("risk_score", 50)
\*     weighted_score += score * weight ; total_weight += weight
\* score * weight raises TypeError when score is not a number
RECURSIVE weighted_loop(_, _, _, _)
weighted_loop(mr, names, W, acc) ==
    IF names = <<>> \/ acc.exc THEN acc
    ELSE LET name  == Head(names)
             score == risk_get(mr[name], 50)
         IN  IF score.kind = "notnum"
             THEN [exc |-> TRUE, weighted_score |-> 0, total_weight |-> 0]
             ELSE weighted_loop(mr, Tail(names), W,
                    [exc |-> FALSE,
                     weighted_score |-> acc.weighted_score + score.val * W[name],
                     total_weight |-> acc.total_weight + W[name]])

LoopStart == [exc |-> FALSE, weighted_score |-> 0, total_weight |-> 0]

\* weighted_score / total_weight if total_weight > 0 else 50
loop_quotient(acc) ==
    IF acc.total_weight > 0 THEN Rat(acc.weighted_score, acc.total_weight)
    ELSE RatInt(50)

\* MLRiskScorer._fallback_prediction
fallback_prediction(mr) ==
    LET acc == weighted_loop(mr, keys_in_order(mr), fallback_weights, LoopStart)
    IN  [exc |-> acc.exc, val |-> loop_quotient(acc)]

\* FeatureExtractor.extract raises when it divides a risk_score that is not
\* a number by 100.0; it reads the six named modules only
extract_raises(mr) ==
    \E i \in 1..Len(ModuleOrder) : mr_get(mr, ModuleOrder[i]).risk.kind = "notnum"

\* MLRiskScorer.predict.  ens is the state of self.ensemble_model:
\* not loaded, loaded and raising, or loaded and returning a score
MLRiskScorer_predict(mr, ens) ==
    IF ens.kind = "unavailable" THEN fallback_prediction(mr)
    ELSE IF extract_raises(mr) \/ ens.kind = "throws" THEN fallback_prediction(mr)
    ELSE [exc |-> FALSE, val |-> RatInt(ens.val)]

\* MLRiskScorer.get_feature_importance: {} on every path
get_feature_importance(mr, ens) == "{}"

NoReason == "(no reason key)"
MlNone == [kind |-> "none", val |-> 0]
MlNum(v) == [kind |-> "num", val |-> v]

MkRet(risk_score, ml_score, module_average, confidence, feature_importance, reason) ==
    [risk_score |-> risk_score, ml_score |-> ml_score,
     module_average |-> module_average, confidence |-> confidence,
     feature_importance |-> feature_importance, reason |-> reason]

NoRet == MkRet(0, MlNone, 0, 0, "{}", NoReason)
Raise == [exc |-> TRUE, ret |-> NoRet]
Return(r) == [exc |-> FALSE, ret |-> r]

\* variant: the search without .lower()
mentions_bytecode_case_sensitive(w) ==
    str_in(NeedleBytecode, w) \/ str_in(NeedleObfuscated, w)

\* "bytecode" in str(w).lower() or "obfuscated" in str(w).lower()
mentions_bytecode(w) ==
    str_in(NeedleBytecode, lower(w)) \/ str_in(NeedleObfuscated, lower(w))

\* variant: the close-agreement test comes before the high-risk test
adaptive_weighting_close_first(ml_risk_score, avg_module_score) ==
    IF RatLT(RatAbs(RatSub(ml_risk_score, avg_module_score)), RatInt(10))
    THEN [confidence |-> 75, final_score |-> RatMix(6, ml_risk_score, 4, avg_module_score)]
    ELSE IF RatGT(ml_risk_score, RatInt(70)) /\ RatGT(avg_module_score, RatInt(60))
    THEN [confidence |-> 90, final_score |-> RatMix(7, ml_risk_score, 3, avg_module_score)]
    ELSE [confidence |-> 50, final_score |-> RatMix(3, ml_risk_score, 7, avg_module_score)]

\* the if / elif / else of the adaptive weighting
adaptive_weighting(ml_risk_score, avg_module_score) ==
    IF RatGT(ml_risk_score, RatInt(70)) /\ RatGT(avg_module_score, RatInt(60))
    THEN [confidence |-> 90, final_score |-> RatMix(7, ml_risk_score, 3, avg_module_score)]
    ELSE IF RatLT(RatAbs(RatSub(ml_risk_score, avg_module_score)), RatInt(10))
    THEN [confidence |-> 75, final_score |-> RatMix(6, ml_risk_score, 4, avg_module_score)]
    ELSE [confidence |-> 50, final_score |-> RatMix(3, ml_risk_score, 7, avg_module_score)]

\* predict, from "Get ML prediction" to the return of the try block
predict_blend(mr, ens) ==
    LET ml  == MLRiskScorer_predict(mr, ens)
        acc == weighted_loop(mr, keys_in_order(mr), module_weights, LoopStart)
        avg_module_score == loop_quotient(acc)
        aw  == adaptive_weighting(ml.val, avg_module_score)
    IN  IF ml.exc \/ acc.exc THEN Raise
        ELSE Return(MkRet(round2(aw.final_score), MlNum(round2(ml.val)),
                          round2(avg_module_score), aw.confidence,
                          get_feature_importance(mr, ens), NoReason))

\* variant: transfer_anomaly compared with > 30 instead of >= 30
predict_from_dealbreaker2_strict(mr, ens) ==
    LET liq_risk == risk_get(mr_get(mr, "liquidity_pool"), 0)
        tr_risk  == risk_get(mr_get(mr, "transfer_anomaly"), 0)
    IN  IF liq_risk.kind = "notnum" THEN Raise
        ELSE IF liq_risk.val >= 60
        THEN IF tr_risk.kind = "notnum" THEN Raise
             ELSE IF tr_risk.val > 30
             THEN Return(MkRet(7000, MlNum(7000), 7000, 85,
                               "low_liquidity_no_activity",
                               "Very low liquidity with no trading activity"))
             ELSE predict_blend(mr, ens)
        ELSE predict_blend(mr, ens)

\* predict: deal-breaker 2 and what follows it in the try block
predict_from_dealbreaker2(mr, ens) ==
    LET liq_risk == risk_get(mr_get(mr, "liquidity_pool"), 0)
        tr_risk  == risk_get(mr_get(mr, "transfer_anomaly"), 0)
    IN  IF liq_risk.kind = "notnum" THEN Raise
        ELSE IF liq_risk.val >= 60
        THEN IF tr_risk.kind = "notnum" THEN Raise
             ELSE IF tr_risk.val >= 30
             THEN Return(MkRet(7000, MlNum(7000), 7000, 85,
                               "low_liquidity_no_activity",
                               "Very low liquidity with no trading activity"))
             ELSE predict_blend(mr, ens)
        ELSE predict_blend(mr, ens)

\* predict: the try block
predict_try(mr, ens) ==
    LET contract_security == mr_get(mr, "contract_security")
        cs_risk  == risk_get(contract_security, 0)
        warnings == contract_security.warnings
    IN  IF cs_risk.kind = "notnum" THEN Raise
        ELSE IF cs_risk.val >= 50
        THEN IF warnings.kind = "none" THEN Raise   \* iterating None
             ELSE IF \E i \in 1..Len(warnings.items) : mentions_bytecode(warnings.items[i])
             THEN Return(MkRet(7500, MlNum(7500), 7500, 90,
                               "bytecode_unavailable",
                               "Contract bytecode unavailable or obfuscated"))
             ELSE predict_from_dealbreaker2(mr, ens)
        ELSE predict_from_dealbreaker2(mr, ens)

\* predict: the except block; an exception raised inside it leaves predict
predict_except(mr) ==
    LET acc == weighted_loop(mr, keys_in_order(mr), except_weights, LoopStart)
        fallback_score == loop_quotient(acc)
    IN  IF acc.exc THEN Raise
        ELSE Return(MkRet(round2(fallback_score), MlNone, round2(fallback_score),
                          50, "{}", NoReason))

\* async def predict(features, module_results)
predict(mr, ens) ==
    LET t == predict_try(mr, ens)
    IN  IF t.exc THEN predict_except(mr) ELSE t

-----------------------------------------------------------------------------
(* Inputs of the fusion specification *)

\* number of analyzers registered beyond the six of the weight tables
MaxOther == 1

min(a, b) == IF a < b THEN a ELSE b

OtherNames == {OtherOrder[i] : i \in 1..min(MaxOther, Len(OtherOrder))}

\* an optional entry of the input map
Entry(result) == [present |-> TRUE, result |-> result]
NoEntry == [present |-> FALSE, result |-> EmptyDict]

PlainResult(risk) == MkResult(risk, WList(<<WarnOwner>>), FNoKey, NoError)

SecurityWarningInputs ==
    {WNoKey, WNone, WList(<<WarnOwner>>), WList(<<WarnNoBytecode>>),
     WList(<<WarnOwner, WarnObfuscatedUpper>>)}

SecurityInputs ==
    {NoEntry} \cup
    {Entry(MkResult(r, w, FNoKey, NoError)) :
        r \in {NoKey, NotNum, Num(20), Num(50), Num(100)},
        w \in SecurityWarningInputs}

HolderInputs == {NoEntry} \cup {Entry(PlainResult(r)) : r \in {Num(20), Num(100), NotNum}}
LiquidityInputs == {NoEntry} \cup {Entry(PlainResult(r)) : r \in {NoKey, Num(20), Num(60)}}
TransferInputs == {NoEntry} \cup {Entry(PlainResult(r)) : r \in {Num(20), Num(30)}}
PatternInputs == {NoEntry} \cup {Entry(PlainResult(r)) : r \in {Num(20), Num(100)}}
TokenomicsInputs == {NoEntry} \cup {Entry(PlainResult(r)) : r \in {Num(20)}}
OtherInputs == {NoEntry} \cup {Entry(PlainResult(r)) : r \in {Num(100)}}

\* what the ensemble model does when asked: scores below 0 and above 100 are
\* values an unconstrained scorer can return
EnsembleScores == {-100, 25, 75, 150}

EnsembleBehaviours ==
    {[kind |-> "unavailable", val |-> 0], [kind |-> "throws", val |-> 0]}
    \cup {[kind |-> "value", val |-> v] : v \in EnsembleScores}

\* the dict made of the entries that are present
build_map(six, others) ==
    [name \in {n \in DOMAIN six : six[n].present}
              \cup {n \in DOMAIN others : others[n].present} |->
        IF name \in DOMAIN six THEN six[name].result ELSE others[name].result]

NotCalled == [exc |-> FALSE, ret |-> NoRet]

\* an optional gas estimate
NoGas == [some |-> FALSE, val |-> 0]
Gas(g) == [some |-> TRUE, val |-> g]

\* find_token_holder returns an address or None
NoHolder == "None"

\* the tuple (success, message, estimated_gas) a simulate_ function returns;
\* path records which return statement produced it
StepResult(success, message, gas, path) ==
    [success |-> success, message |-> message, gas |-> gas, path |-> path]

NoStep == StepResult(FALSE, <<>>, NoGas, "not run")

\* one entry of the warnings list of analyze: which f-string built it, and
\* the message or the gas figure it interpolates
Warn(kind, text, num) == [kind |-> kind, text |-> text, num |-> num]

\* the locals of analyze before the first test, and balance, the local of
\* simulate_sell; features in tenths (-1: not set), normalized gas as a rational
HpLocals(stage) ==
    [stage |-> stage,
     buy |-> NoStep, holder_address |-> NoHolder, balance |-> 0,
     sell |-> NoStep, transfer |-> NoStep,
     warnings |-> <<>>, risk_score |-> 0,
     can_buy |-> -1, can_sell |-> -1, can_transfer |-> -1,
     gas_ratio |-> NoGas, verdict |-> "", verdict_confidence |-> "",
     simulation_verdict |-> -1,
     buy_gas_normalized |-> RatInt(0), sell_gas_normalized |-> RatInt(0),
     error |-> FALSE]

HpIdleEnv == [has_w3 |-> TRUE]
HpIdle == HpLocals("idle")

InitFusion ==
    /\ pc = "fusion"
    /\ \E six \in [contract_security : SecurityInputs,
                   holder_analysis : HolderInputs,
                   liquidity_pool : LiquidityInputs,
                   transfer_anomaly : TransferInputs,
                   pattern_matching : PatternInputs,
                   tokenomics : TokenomicsInputs],
          others \in [OtherNames -> OtherInputs] :
            module_results = build_map(six, others)
    /\ ensemble \in EnsembleBehaviours
    /\ ml_result = NotCalled
    /\ mod_idx = 0
    /\ analyzers = AnalyzersIdle
    /\ hp_env = HpIdleEnv
    /\ hp = HpIdle
    /\ client = ClientIdle
    /\ contract_info = NoContractInfo
    /\ features = NoFeatures
    /\ honeypot_result = NoHoneypotResult
    /\ response = NoResponse
    /\ WebSocketManagerInit
    /\ RateLimitMiddlewareInit

\* await h_ml_risk_scorer.predict(features, module_results)
Fuse ==
    /\ pc = "fusion"
    /\ ml_result' = predict(module_results, ensemble)
    /\ pc' = "fused"
    /\ UNCHANGED <<module_results, ensemble, mod_idx, analyzers, hp_env, hp,
                 client, contract_info, features, honeypot_result, response,
                 ws_vars, rl_vars>>

NextFusion == Fuse

SpecFusion == InitFusion /\ [][NextFusion]_vars

-----------------------------------------------------------------------------
(* Properties of score fusion *)

Fused == pc = "fused"

\* the text speaks of bytecode or of obfuscated code, in any letter case
TextMentionsBytecode(w) ==
    \E needle \in {NeedleBytecode, NeedleObfuscated} :
        \E i \in 1..Len(w) :
            /\ i + Len(needle) - 1 <= Len(w)
            /\ \A k \in 1..Len(needle) : lower_char(w[i + k - 1]) = needle[k]

\* the condition of deal-breaker 1, read off the input map
Rule1Condition(mr) ==
    /\ "contract_security" \in DOMAIN mr
    /\ mr["contract_security"].risk.kind = "num"
    /\ mr["contract_security"].risk.val >= 50
    /\ mr["contract_security"].warnings.kind = "list"
    /\ \E i \in 1..Len(mr["contract_security"].warnings.items) :
           TextMentionsBytecode(mr["contract_security"].warnings.items[i])

\* the condition of deal-breaker 2, read off the input map
Rule2Condition(mr) ==
    /\ "liquidity_pool" \in DOMAIN mr
    /\ mr["liquidity_pool"].risk.kind = "num"
    /\ mr["liquidity_pool"].risk.val >= 60
    /\ "transfer_anomaly" \in DOMAIN mr
    /\ mr["transfer_anomaly"].risk.kind = "num"
    /\ mr["transfer_anomaly"].risk.val >= 30

\* every entry has the shape of a ModuleResult: a numeric risk_score (or
\* none) and a list of warnings (or none)
ConformsToDataModel(mr) ==
    \A name \in DOMAIN mr :
        /\ mr[name].risk.kind # "notnum"
        /\ mr[name].warnings.kind # "none"

AllScoresPresentInRange(mr) ==
    \A name \in DOMAIN mr :
        /\ mr[name].risk.kind = "num"
        /\ mr[name].risk.val >= 0
        /\ mr[name].risk.val <= 100

\* the weights the specification gives, in tenths
SpecWeight(name) ==
    CASE name = "contract_security" -> 30
      [] name = "liquidity_pool" -> 25
      [] name = "holder_analysis" -> 20
      [] name = "transfer_anomaly" -> 15
      [] name = "pattern_matching" -> 10
      [] name = "tokenomics" -> 10
      [] OTHER -> 10

RECURSIVE SumOver(_, _)
SumOver(S, f) ==
    IF S = {} THEN 0
    ELSE LET x == CHOOSE y \in S : TRUE IN f[x] + SumOver(S \ {x}, f)

\* sum(weight_i * risk_i) / sum(weight_i); a missing risk_score counts 50,
\* an empty map gives 50
SpecAverage(mr) ==
    LET Score(name) == IF mr[name].risk.kind = "num" THEN mr[name].risk.val ELSE 50
        weighted == [name \in DOMAIN mr |-> SpecWeight(name) * Score(name)]
        weight   == [name \in DOMAIN mr |-> SpecWeight(name)]
    IN  IF DOMAIN mr = {} THEN RatInt(50)
        ELSE Rat(SumOver(DOMAIN mr, weighted), SumOver(DOMAIN mr, weight))

\* C1 (as stated): whenever contract_security has risk_score >= 50 and a
\* warning that mentions bytecode or obfuscation, fusion returns exactly
\* risk_score 75, confidence 90 and the override reason
\* "bytecode unavailable or obfuscated", whatever the other modules and the
\* ensemble are.
C1_AsStated ==
    (Fused /\ Rule1Condition(module_results)) =>
        /\ ~ml_result.exc
        /\ ml_result.ret.risk_score = 7500
        /\ ml_result.ret.confidence = 90
        /\ ml_result.ret.reason = "bytecode unavailable or obfuscated"

\* C1 (amended): under the same condition fusion returns exactly risk_score
\* 75, confidence 90 and the reason "Contract bytecode unavailable or
\* obfuscated", whatever the other modules and the ensemble are.
C1_DealBreaker1 ==
    (Fused /\ Rule1Condition(module_results)) =>
        /\ ~ml_result.exc
        /\ ml_result.ret.risk_score = 7500
        /\ ml_result.ret.confidence = 90
        /\ ml_result.ret.reason = "Contract bytecode unavailable or obfuscated"

\* deal-breaker 1 has fired on an upper-case warning while another module
\* carries a score that is not a number and the ensemble is out of range
C1_Witness ==
    /\ Fused
    /\ Rule1Condition(module_results)
    /\ module_results["contract_security"].warnings.items = <<WarnOwner, WarnObfuscatedUpper>>
    /\ "holder_analysis" \in DOMAIN module_results
    /\ module_results["holder_analysis"].risk.kind = "notnum"
    /\ ensemble = [kind |-> "value", val |-> 150]
    /\ ml_result.ret.risk_score = 7500

\* C2 (as stated): when rule 1 does not fire, liquidity_pool >= 60 and
\* transfer_anomaly >= 30 give risk_score 70, confidence 85 and the reason
\* "very low liquidity with no trading activity"; when both rules apply the
\* result of rule 1 (75 / 90) is returned.
C2_AsStated ==
    (Fused /\ ConformsToDataModel(module_results) /\ Rule2Condition(module_results)) =>
        IF Rule1Condition(module_results)
        THEN /\ ~ml_result.exc
             /\ ml_result.ret.risk_score = 7500
             /\ ml_result.ret.confidence = 90
        ELSE /\ ~ml_result.exc
             /\ ml_result.ret.risk_score = 7000
             /\ ml_result.ret.confidence = 85
             /\ ml_result.ret.reason = "very low liquidity with no trading activity"

\* C2 (amended): the same with the reason text the code returns,
\* "Very low liquidity with no trading activity".
C2_DealBreaker2 ==
    (Fused /\ ConformsToDataModel(module_results) /\ Rule2Condition(module_results)) =>
        IF Rule1Condition(module_results)
        THEN /\ ~ml_result.exc
             /\ ml_result.ret.risk_score = 7500
             /\ ml_result.ret.confidence = 90
        ELSE /\ ~ml_result.exc
             /\ ml_result.ret.risk_score = 7000
             /\ ml_result.ret.confidence = 85
             /\ ml_result.ret.reason = "Very low liquidity with no trading activity"

\* deal-breaker 2 has fired although contract_security is at 100 (without a
\* bytecode warning)
C2_Witness ==
    /\ Fused
    /\ ConformsToDataModel(module_results)
    /\ Rule2Condition(module_results)
    /\ ~Rule1Condition(module_results)
    /\ "contract_security" \in DOMAIN module_results
    /\ module_results["contract_security"].risk = Num(100)
    /\ ml_result.ret.risk_score = 7000

NoDealBreaker(mr) == ~Rule1Condition(mr) /\ ~Rule2Condition(mr)

\* the six analyzers of the orchestrator, each with a score
SixModules == {ModuleOrder[i] : i \in 1..Len(ModuleOrder)}

\* C3: for module results whose risk scores lie in [0,100], module_average
\* (the value computed by the weighted loop of predict, and by
\* _fallback_prediction) equals sum(weight_i * risk_i) / sum(weight_i) with
\* the weights 3.0 / 2.5 / 2.0 / 1.5 / 1.0 / 1.0 and 1.0 for other names, and
\* lies in [0,100]; the module_average field returned without an override is
\* that value rounded to two decimals.
C3_ModuleAverage ==
    (AllScoresPresentInRange(module_results) /\ DOMAIN module_results # {}) =>
        LET acc == weighted_loop(module_results, keys_in_order(module_results),
                                 module_weights, LoopStart)
            avg_module_score == loop_quotient(acc)
            fb  == fallback_prediction(module_results)
        IN  /\ ~acc.exc
            /\ RatEq(avg_module_score, SpecAverage(module_results))
            /\ ~RatLT(avg_module_score, RatInt(0))
            /\ ~RatGT(avg_module_score, RatInt(100))
            /\ ~fb.exc
            /\ RatEq(fb.val, SpecAverage(module_results))
            /\ (Fused /\ ConformsToDataModel(module_results)
                      /\ NoDealBreaker(module_results)) =>
                   /\ ~ml_result.exc
                   /\ ml_result.ret.module_average = round2(SpecAverage(module_results))
                   /\ ml_result.ret.module_average \in 0..10000

\* the six analyzers returned 20, 100, 60, 20, 100, 20 and fusion reported
\* the weighted average 5600 / 110 = 50.91
C3_Witness ==
    /\ Fused
    /\ DOMAIN module_results = SixModules
    /\ AllScoresPresentInRange(module_results)
    /\ NoDealBreaker(module_results)
    /\ module_results["contract_security"].risk.val = 20
    /\ module_results["holder_analysis"].risk.val = 100
    /\ module_results["liquidity_pool"].risk.val = 60
    /\ module_results["pattern_matching"].risk.val = 100
    /\ ~ml_result.exc
    /\ ml_result.ret.module_average = 5091

\* the ml_score the blend works with: the ensemble's score, or the module
\* average when the ensemble is not loaded or raises
SpecMlScore(mr, ens) ==
    IF ens.kind = "value" THEN RatInt(ens.val) ELSE SpecAverage(mr)

\* C4: when no deal-breaker fires, exactly one blend branch is taken, in this
\* order: ml > 70 and module_average > 60 gives 0.7*ml + 0.3*avg with
\* confidence 90; otherwise |ml - avg| < 10 gives 0.6*ml + 0.4*avg with
\* confidence 75; otherwise 0.3*ml + 0.7*avg with confidence 50 (risk_score is
\* the blend rounded to two decimals).  The confidence of a result without an
\* override is one of 90, 75, 50.
C4_BlendBranches ==
    /\ (Fused /\ ConformsToDataModel(module_results) /\ NoDealBreaker(module_results)) =>
         LET avg == SpecAverage(module_results)
             ml  == SpecMlScore(module_results, ensemble)
             diff10 == 10 * ml.d * avg.d
             dist == IF ml.n * avg.d >= avg.n * ml.d
                     THEN ml.n * avg.d - avg.n * ml.d
                     ELSE avg.n * ml.d - ml.n * avg.d
             Blend(p, q) == round2(Rat(p * ml.n * avg.d + q * avg.n * ml.d, 10 * ml.d * avg.d))
         IN  /\ ~ml_result.exc
             /\ ml_result.ret.reason = NoReason
             /\ IF ml.n > 70 * ml.d /\ avg.n > 60 * avg.d
                THEN ml_result.ret.confidence = 90 /\ ml_result.ret.risk_score = Blend(7, 3)
                ELSE IF dist < diff10
                THEN ml_result.ret.confidence = 75 /\ ml_result.ret.risk_score = Blend(6, 4)
                ELSE ml_result.ret.confidence = 50 /\ ml_result.ret.risk_score = Blend(3, 7)
    /\ (Fused /\ ~ml_result.exc /\ ml_result.ret.reason = NoReason) =>
         ml_result.ret.confidence \in {90, 75, 50}

\* ensemble 75 and module average 72.73: both the high-risk and the
\* close-agreement conditions hold and the first branch was taken
C4_Witness ==
    /\ Fused
    /\ ConformsToDataModel(module_results)
    /\ NoDealBreaker(module_results)
    /\ ensemble = [kind |-> "value", val |-> 75]
    /\ ~ml_result.exc
    /\ ml_result.ret.module_average = 7273
    /\ ml_result.ret.confidence = 90
    /\ ml_result.ret.risk_score = 7432

\* C5: when the ensemble model is not loaded and no deal-breaker fires,
\* ml_score = module_average, final = module_average and the confidence is at
\* most 50.
C5_AsStated ==
    (Fused /\ ensemble.kind = "unavailable" /\ ConformsToDataModel(module_results)
           /\ NoDealBreaker(module_results)) =>
        /\ ~ml_result.exc
        /\ ml_result.ret.ml_score = MlNum(round2(SpecAverage(module_results)))
        /\ ml_result.ret.risk_score = round2(SpecAverage(module_results))
        /\ ml_result.ret.confidence <= 50

\* C6: the fused risk_score is within [0,100] for every module-result set
\* with scores in [0,100] and every value of the ensemble, also below 0 and
\* above 100.
C6_AsStated ==
    (Fused /\ ConformsToDataModel(module_results)) =>
        /\ ~ml_result.exc
        /\ ml_result.ret.risk_score >= 0
        /\ ml_result.ret.risk_score <= 10000

\* C7: if the ensemble raises while predicting and no deal-breaker fires,
\* fusion returns risk_score = module_average with confidence 50.
C7_AsStated ==
    (Fused /\ ensemble.kind = "throws" /\ ConformsToDataModel(module_results)
           /\ NoDealBreaker(module_results)) =>
        /\ ~ml_result.exc
        /\ ml_result.ret.risk_score = round2(SpecAverage(module_results))
        /\ ml_result.ret.confidence = 50

\* C8: fusion never raises, whatever the input map (empty, entries without
\* risk_score or warnings, a risk_score that is not a number) and whatever
\* the ensemble does.
C8_AsStated ==
    Fused => ~ml_result.exc

-----------------------------------------------------------------------------
(* Honeypot simulator: i_honeypot_simulator.py *)

MsgUnknownNoData ==
    <<"U","n","k","n","o","w","n"," ","e","r","r","o","r"," ","(","n","o"," ","r","e","v","e","r","t"," ","d","a","t","a",")">>
MsgUnknownError ==
    <<"U","n","k","n","o","w","n"," ","e","r","r","o","r">>
HexPrefix ==
    <<"0","x">>
ErrorSelector ==
    <<"0","8","c","3","7","9","a","0">>
MsgRevertDataPrefix ==
    <<"R","e","v","e","r","t"," ","(","d","a","t","a",":"," ">>
MsgRevertDataSuffix ==
    <<".",".",".",")">>

\* common_errors, in the order of the dict: <<pattern, message>>
common_errors ==
    << <<<<"T","R","A","N","S","F","E","R","_","F","A","I","L","E","D">>,
         <<"T","r","a","n","s","f","e","r"," ","f","a","i","l","e","d">>>>,
       <<<<"I","N","S","U","F","F","I","C","I","E","N","T","_","O","U","T","P","U","T">>,
         <<"I","n","s","u","f","f","i","c","i","e","n","t"," ","o","u","t","p","u","t"," ","a","m","o","u","n","t">>>>,
       <<<<"I","N","S","U","F","F","I","C","I","E","N","T","_","L","I","Q","U","I","D","I","T","Y">>,
         <<"I","n","s","u","f","f","i","c","i","e","n","t"," ","l","i","q","u","i","d","i","t","y">>>>,
       <<<<"L","O","C","K","E","D">>,
         <<"T","r","a","d","i","n","g"," ","l","o","c","k","e","d">>>>,
       <<<<"U","N","A","U","T","H","O","R","I","Z","E","D">>,
         <<"U","n","a","u","t","h","o","r","i","z","e","d">>>>,
       <<<<"H","O","N","E","Y","P","O","T">>,
         <<"H","o","n","e","y","p","o","t"," ","d","e","t","e","c","t","e","d">>>> >>

MsgBuyOk ==
    <<"U+2705"," ","B","u","y"," ","s","i","m","u","l","a","t","i","o","n"," ","s","u","c","c","e","s","s","f","u","l">>
MsgBuyOkNoGas ==
    <<"U+2705"," ","B","u","y"," ","s","i","m","u","l","a","t","i","o","n"," ","s","u","c","c","e","s","s","f","u","l"," ","(","g","a","s"," ","e","s","t","i","m","a","t","i","o","n"," ","f","a","i","l","e","d",")">>
MsgBuyFailedPrefix ==
    <<"U+274C"," ","B","u","y"," ","F","A","I","L","E","D",":"," ">>
MsgBuyErrorPrefix ==
    <<"U+274C"," ","B","u","y"," ","s","i","m","u","l","a","t","i","o","n"," ","e","r","r","o","r",":"," ">>
MsgSetupErrorPrefix ==
    <<"S","e","t","u","p"," ","e","r","r","o","r",":"," ">>
MsgSellSkipped ==
    <<"U+26A0","U+FE0F"," ","S","e","l","l"," ","s","i","m","u","l","a","t","i","o","n"," ","s","k","i","p","p","e","d"," ","(","n","o"," ","t","o","k","e","n"," ","h","o","l","d","e","r"," ","f","o","u","n","d",")">>
MsgApproveFailedPrefix ==
    <<"U+274C"," ","A","p","p","r","o","v","e"," ","F","A","I","L","E","D",":"," ">>
MsgApproveFailedSuffix ==
    <<" ","(","H","o","n","e","y","p","o","t"," ","i","n","d","i","c","a","t","o","r","!",")">>
MsgSellOk ==
    <<"U+2705"," ","S","e","l","l"," ","s","i","m","u","l","a","t","i","o","n"," ","s","u","c","c","e","s","s","f","u","l">>
MsgSellOkNoGas ==
    <<"U+2705"," ","S","e","l","l"," ","s","i","m","u","l","a","t","i","o","n"," ","s","u","c","c","e","s","s","f","u","l"," ","(","g","a","s"," ","e","s","t","i","m","a","t","i","o","n"," ","f","a","i","l","e","d",")">>
MsgSellFailedPrefix ==
    <<"U+274C"," ","S","e","l","l"," ","F","A","I","L","E","D",":"," ">>
MsgSellFailedSuffix ==
    <<" ","(","H","O","N","E","Y","P","O","T","!",")">>
MsgSellErrorPrefix ==
    <<"U+274C"," ","S","e","l","l"," ","s","i","m","u","l","a","t","i","o","n"," ","e","r","r","o","r",":"," ">>
MsgTransferOk ==
    <<"U+2705"," ","D","i","r","e","c","t"," ","t","r","a","n","s","f","e","r"," ","w","o","r","k","s">>
MsgTransferBlockedPrefix ==
    <<"U+274C"," ","T","r","a","n","s","f","e","r"," ","b","l","o","c","k","e","d",":"," ">>
MsgTransferErrorPrefix ==
    <<"U+274C"," ","T","r","a","n","s","f","e","r"," ","e","r","r","o","r",":"," ">>

\* the characters chr(32) .. chr(126); the double quote, the backslash and
\* the backquote are written U+0022, U+005C, U+0060
PrintableAscii ==
    <<" ","!","U+0022","#","$","%","&","'","(",")","*","+",",","-",".","/","0","1","2","3","4","5","6","7","8","9",":",";","<","=",">","?","@","A","B","C","D","E","F","G","H","I","J","K","L","M","N","O","P","Q","R","S","T","U","V","W","X","Y","Z","[","U+005C","]","^","_","U+0060","a","b","c","d","e","f","g","h","i","j","k","l","m","n","o","p","q","r","s","t","u","v","w","x","y","z","{","|","}","~">>

HexDigits ==
    <<"0","1","2","3","4","5","6","7","8","9","a","b","c","d","e","f">>

\* value of a hexadecimal digit of either case, -1 for any other character
hex_val(c) ==
    IF \E i \in 1..16 : HexDigits[i] = lower_char(c)
    THEN (CHOOSE i \in 1..16 : HexDigits[i] = lower_char(c)) - 1
    ELSE -1

is_hex(s) == \A i \in 1..Len(s) : hex_val(s[i]) >= 0

\* s[a:b] with 0-based bounds, clamped as Python slices are
slice(s, a, b) == SubSeq(s, min(a, Len(s)) + 1, min(b, Len(s)))

\* s.startswith(prefix)
startswith(s, prefix) ==
    Len(s) >= Len(prefix) /\ SubSeq(s, 1, Len(prefix)) = prefix

\* any length at or above this bound slices to the end of the data
LengthCap == 65536

\* int(s, 16) for a string of hexadecimal digits, saturating at LengthCap
hex_int(s) ==
    LET n == Len(s)
        Digit(k) == IF k <= n THEN hex_val(s[n - k + 1]) ELSE 0
    IN  IF \E i \in 1..(n - 4) : hex_val(s[i]) > 0 THEN LengthCap
        ELSE Digit(1) + 16 * Digit(2) + 256 * Digit(3) + 4096 * Digit(4)

\* chr of one decoded byte below 0x80
byte_char(code) ==
    IF code >= 32 /\ code <= 126 THEN PrintableAscii[code - 31] ELSE "U+00XX"

\* bytes.fromhex(h).decode(utf-8, errors=ignore) for an even number of
\* hexadecimal digits; bytes above 0x7f are dropped by errors=ignore (a
\* well-formed multi-byte sequence is dropped as well: the model has no
\* non-ASCII revert text)
decode_hex(h) ==
    LET codes == [i \in 1..(Len(h) \div 2) |->
                    16 * hex_val(h[2 * i - 1]) + hex_val(h[2 * i])]
        kept  == SelectSeq(codes, LAMBDA code : code < 128)
    IN  [i \in 1..Len(kept) |-> byte_char(kept[i])]

\* the loop over common_errors: the message of the first pattern found
RECURSIVE match_common(_, _)
match_common(data_lower, i) ==
    IF i > Len(common_errors) THEN <<>>
    ELSE IF str_in(lower(common_errors[i][1]), data_lower) THEN common_errors[i][2]
    ELSE match_common(data_lower, i + 1)

\* parse_revert_reason, after the 0x prefix has been removed
parse_stripped(error_data) ==
    LET string_data == slice(error_data, 8 + 64, Len(error_data))
        length_hex  == slice(string_data, 0, 64)
        length      == hex_int(length_hex)
        payload     == slice(string_data, 64, 64 + length * 2)
        common      == match_common(lower(error_data), 1)
        fallthrough == IF common # <<>> THEN common
                       ELSE MsgRevertDataPrefix \o slice(error_data, 0, 20) \o MsgRevertDataSuffix
    IN  IF startswith(error_data, ErrorSelector) /\ Len(string_data) >= 64
        THEN IF ~is_hex(length_hex) \/ ~is_hex(payload) \/ Len(payload) % 2 = 1
             THEN MsgUnknownError      \* ValueError caught by the except
             ELSE decode_hex(payload)
        ELSE fallthrough

\* parse_revert_reason(error_data)
parse_revert_reason(error_data) ==
    IF error_data = <<>> \/ error_data = HexPrefix THEN MsgUnknownNoData
    ELSE IF startswith(error_data, HexPrefix)
    THEN parse_stripped(slice(error_data, 2, Len(error_data)))
    ELSE parse_stripped(error_data)

-----------------------------------------------------------------------------
(* What the chain can answer to the simulator *)

HexBlacklisted ==
    <<"6","2","6","c","6","1","6","3","6","b","6","c","6","9","7","3","7","4","6","5","6","4">>
\* hex of the text  ERC20: insufficient allowance
HexInsufficientAllowance ==
    <<"4","5","5","2","4","3","3","2","3","0","3","a","2","0","6","9","6","e","7","3","7","5","6","6","6","6","6","9","6","3","6","9","6","5","6","e","7","4","2","0","6","1","6","c","6","c","6","f","7","7","6","1","6","e","6","3","6","5">>
HexSkipped ==
    <<"7","3","6","b","6","9","7","0","7","0","6","5","6","4">>
DataRevertedTransferFailed ==
    <<"e","x","e","c","u","t","i","o","n"," ","r","e","v","e","r","t","e","d",":"," ","T","R","A","N","S","F","E","R","_","F","A","I","L","E","D">>
DataTradingPaused ==
    <<"T","r","a","d","i","n","g"," ","p","a","u","s","e","d">>
DataSkippedForHolder ==
    <<"S","e","l","l"," ","s","k","i","p","p","e","d"," ","f","o","r"," ","t","h","i","s"," ","h","o","l","d","e","r">>
\* the node's answer to a call from an account without ether
ErrInsufficientFunds ==
    <<"i","n","s","u","f","f","i","c","i","e","n","t"," ","f","u","n","d","s"," ","f","o","r"," ","g","a","s"," ","*"," ","p","r","i","c","e"," ","+"," ","v","a","l","u","e">>

ErrNodeSkipped ==
    <<"n","o","d","e"," ","s","k","i","p","p","e","d"," ","t","h","e"," ","r","e","q","u","e","s","t">>

Zeros(k) == [i \in 1..k |-> "0"]

\* ABI encoding of Error(string): selector, offset 0x20, length, padded text
abi_error_string(payload_hex) ==
    LET len == Len(payload_hex) \div 2
    IN  HexPrefix \o ErrorSelector
        \o Zeros(62) \o <<"2", "0">>
        \o Zeros(62) \o <<HexDigits[(len \div 16) + 1], HexDigits[(len % 16) + 1]>>
        \o payload_hex \o Zeros(64 - Len(payload_hex))

\* str(e) of a ContractLogicError
RevertDataInputs ==
    {<<>>, DataRevertedTransferFailed, DataTradingPaused, DataSkippedForHolder,
     abi_error_string(HexBlacklisted), abi_error_string(HexSkipped),
     abi_error_string(HexInsufficientAllowance)}

\* str(e) of any other exception
ErrorTextInputs == {ErrTimeout, ErrNodeSkipped}

\* one simulated call: it returns (and estimate_gas returns a number or
\* raises), it reverts with ContractLogicError, or it raises something else;
\* "setup" is an exception raised before the call is made
CallOk(gas) == [kind |-> "ok", text |-> <<>>, gas |-> gas]
CallRevert(data) == [kind |-> "revert", text |-> data, gas |-> [some |-> FALSE, val |-> 0]]
CallError(text) == [kind |-> "error", text |-> text, gas |-> [some |-> FALSE, val |-> 0]]
SetupRaises(text) == [kind |-> "setup", text |-> text, gas |-> [some |-> FALSE, val |-> 0]]

\* find_token_holder returns an address or None; it catches every exception
HolderInputs2 == {"0xPair"}

\* str(e)[:100]
first100(text) == slice(text, 0, 100)

\* simulate_buy
simulate_buy(b) ==
    CASE b.kind = "setup" ->
            StepResult(FALSE, MsgSetupErrorPrefix \o first100(b.text), NoGas, "setup")
      [] b.kind = "ok" ->
            IF b.gas.some THEN StepResult(TRUE, MsgBuyOk, b.gas, "ok")
            ELSE StepResult(TRUE, MsgBuyOkNoGas, NoGas, "ok")
      [] b.kind = "revert" ->
            StepResult(FALSE, MsgBuyFailedPrefix \o parse_revert_reason(b.text), NoGas, "revert")
      [] b.kind = "error" ->
            StepResult(FALSE, MsgBuyErrorPrefix \o first100(b.text), NoGas, "error")

\* variant: a sell without a holder is reported as a failed sell
simulate_sell_fails_without_holder(holder_address, b) ==
    LET holder == IF holder_address = NoHolder THEN b.find ELSE holder_address
    IN  IF holder = NoHolder
        THEN StepResult(FALSE, MsgSellSkipped, NoGas, "skipped")
        ELSE IF b.approve.kind = "setup"
        THEN StepResult(FALSE, MsgSetupErrorPrefix \o first100(b.approve.text), NoGas, "setup")
        ELSE IF b.approve.kind = "revert"
        THEN StepResult(FALSE, MsgApproveFailedPrefix \o parse_revert_reason(b.approve.text)
                                 \o MsgApproveFailedSuffix, NoGas, "approve revert")
        ELSE CASE b.swap.kind = "setup" ->
                     StepResult(FALSE, MsgSetupErrorPrefix \o first100(b.swap.text), NoGas, "setup")
               [] b.swap.kind = "ok" ->
                     IF b.swap.gas.some THEN StepResult(TRUE, MsgSellOk, b.swap.gas, "ok")
                     ELSE StepResult(TRUE, MsgSellOkNoGas, NoGas, "ok")
               [] b.swap.kind = "revert" ->
                     StepResult(FALSE, MsgSellFailedPrefix \o parse_revert_reason(b.swap.text)
                                         \o MsgSellFailedSuffix, NoGas, "revert")
               [] b.swap.kind = "error" ->
                     StepResult(FALSE, MsgSellErrorPrefix \o first100(b.swap.text), NoGas, "error")

\* simulate_sell; b.find is the answer of the second find_token_holder, made
\* when no holder was passed in, b.approve and b.swap the two simulated calls
\* (b.swap of kind "setup": an exception anywhere outside the two calls)
simulate_sell(holder_address, b) ==
    LET holder == IF holder_address = NoHolder THEN b.find ELSE holder_address
    IN  IF holder = NoHolder
        THEN StepResult(TRUE, MsgSellSkipped, NoGas, "skipped")
        ELSE IF b.approve.kind = "setup"
        THEN StepResult(FALSE, MsgSetupErrorPrefix \o first100(b.approve.text), NoGas, "setup")
        ELSE IF b.approve.kind = "revert"
        THEN StepResult(FALSE, MsgApproveFailedPrefix \o parse_revert_reason(b.approve.text)
                                 \o MsgApproveFailedSuffix, NoGas, "approve revert")
        ELSE CASE b.swap.kind = "setup" ->
                     StepResult(FALSE, MsgSetupErrorPrefix \o first100(b.swap.text), NoGas, "setup")
               [] b.swap.kind = "ok" ->
                     IF b.swap.gas.some THEN StepResult(TRUE, MsgSellOk, b.swap.gas, "ok")
                     ELSE StepResult(TRUE, MsgSellOkNoGas, NoGas, "ok")
               [] b.swap.kind = "revert" ->
                     StepResult(FALSE, MsgSellFailedPrefix \o parse_revert_reason(b.swap.text)
                                         \o MsgSellFailedSuffix, NoGas, "revert")
               [] b.swap.kind = "error" ->
                     StepResult(FALSE, MsgSellErrorPrefix \o first100(b.swap.text), NoGas, "error")

\* simulate_direct_transfer
simulate_direct_transfer(b) ==
    CASE b.kind = "setup" ->
            StepResult(FALSE, MsgSetupErrorPrefix \o first100(b.text), NoGas, "setup")
      [] b.kind = "ok" -> StepResult(TRUE, MsgTransferOk, NoGas, "ok")
      [] b.kind = "revert" ->
            StepResult(FALSE, MsgTransferBlockedPrefix \o parse_revert_reason(b.text), NoGas, "revert")
      [] b.kind = "error" ->
            StepResult(FALSE, MsgTransferErrorPrefix \o first100(b.text), NoGas, "error")

\* gas estimates the chain can report
BuyGasInputs == {100000, 350000}
SellGasInputs == {150000, 450000}

BuyBehaviours ==
    {CallOk(NoGas)} \cup {CallOk(Gas(g)) : g \in BuyGasInputs}
    \cup {CallRevert(d) : d \in RevertDataInputs}
    \cup {CallError(t) : t \in ErrorTextInputs \cup {ErrInsufficientFunds}}
    \cup {SetupRaises(t) : t \in ErrorTextInputs}

SwapBehaviours ==
    {CallOk(NoGas)} \cup {CallOk(Gas(g)) : g \in SellGasInputs}
    \cup {CallRevert(d) : d \in RevertDataInputs}
    \cup {CallError(t) : t \in ErrorTextInputs}
    \cup {SetupRaises(t) : t \in ErrorTextInputs}

\* balanceOf(holder) in whole tokens: a small holder, a large pool
HolderBalances == {100, 50000}

SellBehaviours ==
    {[find |-> f, balance |-> t, approve |-> a, swap |-> CallOk(NoGas)] :
        f \in {NoHolder} \cup HolderInputs2,
        t \in HolderBalances,
        a \in {CallRevert(d) : d \in RevertDataInputs} \cup {SetupRaises(ErrTimeout)}}
    \cup
    {[find |-> f, balance |-> t, approve |-> a, swap |-> w] :
        f \in {NoHolder} \cup HolderInputs2,
        t \in HolderBalances,
        a \in {CallOk(NoGas), CallError(ErrTimeout)},
        w \in SwapBehaviours}

TransferBehaviours ==
    {CallOk(NoGas)}
    \cup {CallRevert(d) : d \in RevertDataInputs}
    \cup {CallError(t) : t \in ErrorTextInputs}
    \cup {SetupRaises(t) : t \in ErrorTextInputs}


\* Test 1: simulate_buy and the bookkeeping that follows it
HpBuy ==
    /\ hp.stage = "start"
    /\ hp_env.has_w3
    /\ \E b \in BuyBehaviours :
         LET r == simulate_buy(b)
             high == r.gas.some /\ r.gas.val # 0 /\ r.gas.val > 300000
         IN  hp' = [hp EXCEPT
                      !.stage = "find_holder",
                      !.buy = r,
                      !.warnings =
                          IF ~r.success THEN Append(@, Warn("CRITICAL", r.message, 0))
                          ELSE IF high THEN Append(@, Warn("High buy gas cost", <<>>, r.gas.val))
                          ELSE @,
                      !.risk_score = IF ~r.success THEN @ + 60 ELSE IF high THEN @ + 10 ELSE @,
                      !.can_buy = IF r.success THEN 10 ELSE 0]
    /\ UNCHANGED <<pc, module_results, ensemble, ml_result, mod_idx, analyzers, hp_env,
                 client, contract_info, features, honeypot_result, response,
                 ws_vars, rl_vars>>

\* blockchain.w3 raises: the except block of analyze returns the UNKNOWN result
HpFail ==
    /\ hp.stage = "start"
    /\ ~hp_env.has_w3
    /\ hp' = [hp EXCEPT
                !.stage = "done",
                !.risk_score = 0,
                !.warnings = <<Warn("Simulation unavailable", <<>>, 0)>>,
                !.error = TRUE,
                !.verdict = "UNKNOWN",
                !.verdict_confidence = "none",
                !.can_buy = 5, !.can_sell = 5, !.can_transfer = 5,
                !.simulation_verdict = 5]
    /\ UNCHANGED <<pc, module_results, ensemble, ml_result, mod_idx, analyzers, hp_env,
                 client, contract_info, features, honeypot_result, response,
                 ws_vars, rl_vars>>

\* holder_address = find_token_holder(w3, address)
HpFindHolder ==
    /\ hp.stage = "find_holder"
    /\ \E h \in {NoHolder} \cup HolderInputs2 :
         hp' = [hp EXCEPT !.stage = "sell", !.holder_address = h]
    /\ UNCHANGED <<pc, module_results, ensemble, ml_result, mod_idx, analyzers, hp_env,
                 client, contract_info, features, honeypot_result, response,
                 ws_vars, rl_vars>>

\* Test 2: simulate_sell and the bookkeeping that follows it
HpSell ==
    /\ hp.stage = "sell"
    /\ \E b \in SellBehaviours :
         LET r == simulate_sell(hp.holder_address, b)
             high == r.gas.some /\ r.gas.val # 0 /\ r.gas.val > 400000
         IN  hp' = [hp EXCEPT
                      !.stage = "transfer",
                      !.sell = r,
                      !.balance = IF r.path = "skipped" THEN 0 ELSE b.balance,
                      !.warnings =
                          IF ~r.success THEN Append(@, Warn("HONEYPOT DETECTED", r.message, 0))
                          ELSE IF high THEN Append(@, Warn("High sell gas cost", <<>>, r.gas.val))
                          ELSE @,
                      !.risk_score = IF ~r.success THEN @ + 80 ELSE IF high THEN @ + 15 ELSE @,
                      !.can_sell = IF r.success THEN 10 ELSE 0]
    /\ UNCHANGED <<pc, module_results, ensemble, ml_result, mod_idx, analyzers, hp_env,
                 client, contract_info, features, honeypot_result, response,
                 ws_vars, rl_vars>>

\* variant: the transfer test without the test of sell_success
HpTransfer_always ==
    /\ hp.stage = "transfer"
    /\ \E b \in TransferBehaviours :
          LET r == simulate_direct_transfer(b)
          IN  hp' = [hp EXCEPT
                       !.stage = "verdict",
                       !.transfer = r,
                       !.warnings =
                           IF ~r.success
                           THEN Append(@, Warn("Transfer restrictions detected", r.message, 0))
                           ELSE Append(@, Warn("Direct transfer works but sell fails", <<>>, 0)),
                       !.risk_score = IF ~r.success THEN @ + 20 ELSE @,
                       !.can_transfer = IF r.success THEN 10 ELSE 0]
    /\ UNCHANGED <<pc, module_results, ensemble, ml_result, mod_idx, analyzers, hp_env,
                 client, contract_info, features, honeypot_result, response,
                 ws_vars, rl_vars>>

\* Test 3: simulate_direct_transfer, only if the sell did not succeed
HpTransfer ==
    /\ hp.stage = "transfer"
    /\ IF ~hp.sell.success
       THEN \E b \in TransferBehaviours :
              LET r == simulate_direct_transfer(b)
              IN  hp' = [hp EXCEPT
                           !.stage = "verdict",
                           !.transfer = r,
                           !.warnings =
                               IF ~r.success
                               THEN Append(@, Warn("Transfer restrictions detected", r.message, 0))
                               ELSE Append(@, Warn("Direct transfer works but sell fails", <<>>, 0)),
                           !.risk_score = IF ~r.success THEN @ + 20 ELSE @,
                           !.can_transfer = IF r.success THEN 10 ELSE 0]
       ELSE hp' = [hp EXCEPT !.stage = "verdict", !.can_transfer = 10]
    /\ UNCHANGED <<pc, module_results, ensemble, ml_result, mod_idx, analyzers, hp_env,
                 client, contract_info, features, honeypot_result, response,
                 ws_vars, rl_vars>>

\* "skipped" in sell_message.lower()
sell_skipped(sell_message) == str_in(NeedleSkipped, lower(sell_message))

\* the verdict chain of analyze
derive_verdict(buy_success, sell_success, skipped) ==
    IF skipped
    THEN IF buy_success THEN [verdict |-> "SAFE", confidence |-> "medium"]
         ELSE [verdict |-> "LOCKED", confidence |-> "high"]
    ELSE IF buy_success /\ sell_success THEN [verdict |-> "SAFE", confidence |-> "high"]
    ELSE IF buy_success /\ ~sell_success THEN [verdict |-> "HONEYPOT", confidence |-> "very_high"]
    ELSE IF ~buy_success /\ ~sell_success THEN [verdict |-> "LOCKED", confidence |-> "high"]
    ELSE [verdict |-> "SUSPICIOUS", confidence |-> "medium"]

\* the dict lookup that turns the verdict into features["simulation_verdict"]
verdict_feature(verdict) ==
    CASE verdict = "SAFE" -> 0
      [] verdict = "HONEYPOT" -> 10
      [] verdict = "LOCKED" -> 8
      [] verdict = "SUSPICIOUS" -> 6
      [] OTHER -> 5

\* min((gas or 0) / 500000, 1.0)
gas_normalized(gas) ==
    IF ~gas.some THEN RatInt(0)
    ELSE IF gas.val > 500000 THEN RatInt(1) ELSE Rat(gas.val, 500000)

\* variant: a suspicious gas ratio decides the verdict
HpVerdict_gas_decides ==
    /\ hp.stage = "verdict"
    /\ LET both == /\ hp.buy.gas.some /\ hp.buy.gas.val # 0
                   /\ hp.sell.gas.some /\ hp.sell.gas.val # 0
           gas_ratio == IF hp.buy.gas.val > 0 THEN Rat(hp.sell.gas.val, hp.buy.gas.val)
                        ELSE RatInt(1)
           suspicious == both /\ RatGT(gas_ratio, RatInt(2))
           risk1 == IF suspicious THEN hp.risk_score + 12 ELSE hp.risk_score
           skipped == sell_skipped(hp.sell.message)
           v == IF suspicious THEN [verdict |-> "SUSPICIOUS", confidence |-> "medium"]
                ELSE derive_verdict(hp.buy.success, hp.sell.success, skipped)
           risk2 == IF skipped /\ hp.buy.success
                    THEN (IF risk1 - 80 > 0 THEN risk1 - 80 ELSE 0)
                    ELSE risk1
       IN  hp' = [hp EXCEPT
                    !.stage = "done",
                    !.gas_ratio = IF both THEN Gas(round2(gas_ratio)) ELSE NoGas,
                    !.warnings = IF suspicious
                                 THEN Append(@, Warn("Sell gas is higher than buy", <<>>,
                                                     round2(gas_ratio)))
                                 ELSE @,
                    !.verdict = v.verdict,
                    !.verdict_confidence = v.confidence,
                    !.simulation_verdict = verdict_feature(v.verdict),
                    !.buy_gas_normalized = gas_normalized(hp.buy.gas),
                    !.sell_gas_normalized = gas_normalized(hp.sell.gas),
                    !.risk_score = min(risk2, 100)]
    /\ UNCHANGED <<pc, module_results, ensemble, ml_result, mod_idx, analyzers, hp_env,
                 client, contract_info, features, honeypot_result, response,
                 ws_vars, rl_vars>>

\* gas analysis, verdict, features and the return of analyze
HpVerdict ==
    /\ hp.stage = "verdict"
    /\ LET both == /\ hp.buy.gas.some /\ hp.buy.gas.val # 0
                   /\ hp.sell.gas.some /\ hp.sell.gas.val # 0
           gas_ratio == IF hp.buy.gas.val > 0 THEN Rat(hp.sell.gas.val, hp.buy.gas.val)
                        ELSE RatInt(1)
           suspicious == both /\ RatGT(gas_ratio, RatInt(2))
           risk1 == IF suspicious THEN hp.risk_score + 12 ELSE hp.risk_score
           skipped == sell_skipped(hp.sell.message)
           v == derive_verdict(hp.buy.success, hp.sell.success, skipped)
           risk2 == IF skipped /\ hp.buy.success
                    THEN (IF risk1 - 80 > 0 THEN risk1 - 80 ELSE 0)
                    ELSE risk1
       IN  hp' = [hp EXCEPT
                    !.stage = "done",
                    !.gas_ratio = IF both THEN Gas(round2(gas_ratio)) ELSE NoGas,
                    !.warnings = IF suspicious
                                 THEN Append(@, Warn("Sell gas is higher than buy", <<>>,
                                                     round2(gas_ratio)))
                                 ELSE @,
                    !.verdict = v.verdict,
                    !.verdict_confidence = v.confidence,
                    !.simulation_verdict = verdict_feature(v.verdict),
                    !.buy_gas_normalized = gas_normalized(hp.buy.gas),
                    !.sell_gas_normalized = gas_normalized(hp.sell.gas),
                    !.risk_score = min(risk2, 100)]
    /\ UNCHANGED <<pc, module_results, ensemble, ml_result, mod_idx, analyzers, hp_env,
                 client, contract_info, features, honeypot_result, response,
                 ws_vars, rl_vars>>

InitHoneypot ==
    /\ pc = "simulator"
    /\ module_results = <<>>
    /\ ensemble = [kind |-> "unavailable", val |-> 0]
    /\ ml_result = NotCalled
    /\ mod_idx = 0
    /\ analyzers = AnalyzersIdle
    /\ hp_env \in [has_w3 : BOOLEAN]
    /\ hp = HpLocals("start")
    /\ client = ClientIdle
    /\ contract_info = NoContractInfo
    /\ features = NoFeatures
    /\ honeypot_result = NoHoneypotResult
    /\ response = NoResponse
    /\ WebSocketManagerInit
    /\ RateLimitMiddlewareInit

NextHoneypot ==
    \/ HpBuy
    \/ HpFail
    \/ HpFindHolder
    \/ HpSell
    \/ HpTransfer
    \/ HpVerdict

SpecHoneypot == InitHoneypot /\ [][NextHoneypot]_vars

\* ---------------------------------------------------------------------
\* Properties of the honeypot verdict
\* ---------------------------------------------------------------------

\* analyze has returned through its normal return statement
HpReturned == hp.stage = "done" /\ ~hp.error

\* what happened to the sell step: it was not run because no holder was
\* found, or it ran and succeeded, or it ran and failed
SellOutcome ==
    IF hp.sell.path = "skipped" THEN "skipped"
    ELSE IF hp.sell.success THEN "ok" ELSE "failed"

\* the verdict table keyed by the buy outcome and the sell outcome
VerdictTable(buy_ok, sell_outcome) ==
    CASE sell_outcome = "skipped" /\ buy_ok -> [verdict |-> "SAFE", confidence |-> "medium"]
      [] sell_outcome = "skipped" /\ ~buy_ok -> [verdict |-> "LOCKED", confidence |-> "high"]
      [] sell_outcome = "ok" /\ buy_ok -> [verdict |-> "SAFE", confidence |-> "high"]
      [] sell_outcome = "failed" /\ buy_ok -> [verdict |-> "HONEYPOT", confidence |-> "very_high"]
      [] sell_outcome = "failed" /\ ~buy_ok -> [verdict |-> "LOCKED", confidence |-> "high"]
      [] OTHER -> [verdict |-> "SUSPICIOUS", confidence |-> "medium"]

\* C9: the verdict and its confidence are the table entry for the buy outcome
\* and the sell outcome (succeeded, failed or skipped), whatever the transfer
\* outcome and whatever the messages of the steps say
C9_AsStated ==
    HpReturned =>
        LET v == VerdictTable(hp.buy.success, SellOutcome)
        IN  hp.verdict = v.verdict /\ hp.verdict_confidence = v.confidence

-----------------------------------------------------------------------------
(* The orchestrator: analysis_orchestrator.py *)

\* the dict literal of the except branch of _run_modules
module_failed(text) ==
    MkResult(Num(50), WList(<<ModuleFailedPrefix \o text>>), FNoKey, ErrorText(text))

\* the same check without the test of the module name
zero_risk_rule_any_module(module_name, result) ==
    LET warnings == result.warnings
        no_warnings == warnings.kind # "list" \/ Len(warnings.items) = 0
    IN  IF risk_get(result, 0) = Num(0) /\ no_warnings
        THEN [result EXCEPT !.risk = Num(50),
                            !.warnings = WList(<<WarnZeroRisk1, WarnZeroRisk2>>)]
        ELSE result

\* the check made on the result of contract_security: a zero risk score with
\* no warnings is rewritten to risk 50 with two warnings
zero_risk_rule(module_name, result) ==
    LET warnings == result.warnings
        no_warnings == warnings.kind # "list" \/ Len(warnings.items) = 0
    IN  IF /\ module_name = "contract_security"
           /\ risk_get(result, 0) = Num(0)
           /\ no_warnings
        THEN [result EXCEPT !.risk = Num(50),
                            !.warnings = WList(<<WarnZeroRisk1, WarnZeroRisk2>>)]
        ELSE result

\* the same loop body without its except clause
run_module_propagates(module_name, behaviour) ==
    IF behaviour.kind = "raises"
    THEN [exc |-> TRUE, result |-> EmptyDict]
    ELSE [exc |-> FALSE, result |-> zero_risk_rule(module_name, behaviour.result)]

\* the body of the for loop of _run_modules: try ... except Exception
run_module(module_name, behaviour) ==
    IF behaviour.kind = "raises"
    THEN [exc |-> FALSE, result |-> module_failed(behaviour.text)]
    ELSE [exc |-> FALSE, result |-> zero_risk_rule(module_name, behaviour.result)]

\* an assignment that starts a fresh dict for every module
dict_set_fresh(results, key, value) ==
    [k \in {key} |-> value]

\* results[module_name] = result
dict_set(results, key, value) ==
    [k \in DOMAIN results \cup {key} |-> IF k = key THEN value ELSE results[k]]

\* variant: update that keeps the value a key already has
dict_update_keeps_first(dict, other) ==
    [k \in DOMAIN dict \cup DOMAIN other |->
        IF k \in DOMAIN dict THEN dict[k] ELSE other[k]]

\* features.update(other)
dict_update(dict, other) ==
    [k \in DOMAIN dict \cup DOMAIN other |->
        IF k \in DOMAIN other THEN other[k] ELSE dict[k]]

RECURSIVE extract_loop(_, _, _)
extract_loop(mr, names, acc) ==
    IF names = <<>> THEN acc
    ELSE LET result == mr[Head(names)]
             next == IF result.features.kind = "map"
                     THEN dict_update(acc, result.features.map)
                     ELSE acc
         IN  extract_loop(mr, Tail(names), next)

\* _extract_features(module_results)
extract_features(mr) == extract_loop(mr, keys_in_order(mr), NoFeatures)

\* _get_contract_info: the except branch turns every failure of the client,
\* and every ContractInfo that does not validate, into address and chain only
get_contract_info(c) ==
    IF c.get_contract_info = "returns" THEN "name, symbol, decimals, total_supply"
    ELSE "address and chain only"

\* the parameters of i_honeypot_simulator.analyze, and the keyword the
\* orchestrator passes besides the two positional arguments
AnalyzeParameters == {"address", "blockchain"}
CallKeywords == {"liquidity_usd"}
TypeErrorText ==
    <<"a","n","a","l","y","z","e","(",")"," ","g","o","t"," ","a","n"," ","u","n","e","x","p","e","c","t","e","d"," ","k","e","y","w","o","r","d"," ","a","r","g","u","m","e","n","t"," ","'","l","i","q","u","i","d","i","t","y","_","u","s","d","'">>

\* the dict analyze returns, read off its locals when it reaches a return
analyze_return(h) ==
    HoneypotResult(NoError, NoSuchKey, HoneypotData(h.verdict, h.verdict_confidence),
                   h.risk_score, h.warnings)

\* variant: a call that passes the two positional arguments only
call_analyze_positional(keywords, h) ==
    [exc |-> FALSE, text |-> <<>>, ret |-> analyze_return(h)]

\* await self.honeypot_simulator.analyze(address, self.blockchain, liquidity_usd=...)
\* Python binds the arguments before the body runs: a keyword that is not a
\* parameter raises TypeError
call_analyze(keywords, h) ==
    IF keywords \subseteq AnalyzeParameters
    THEN [exc |-> FALSE, text |-> <<>>, ret |-> analyze_return(h)]
    ELSE [exc |-> TRUE, text |-> TypeErrorText, ret |-> NoHoneypotResult]

\* the dict of the except branch of step 2.5
honeypot_placeholder(text) ==
    HoneypotResult(ErrorText(text), "UNKNOWN", HoneypotData(NoSuchKey, NoSuchKey), -1, <<>>)

\* step 2.5 of analyze: try the simulator, except Exception build the placeholder
run_honeypot(h) ==
    LET r == call_analyze(CallKeywords, h)
    IN  IF r.exc THEN honeypot_placeholder(r.text) ELSE r.ret

\* format_risk_level, on a score in hundredths
format_risk_level(score) ==
    IF score >= 8000 THEN "CRITICAL"
    ELSE IF score >= 6000 THEN "HIGH"
    ELSE IF score >= 4000 THEN "MEDIUM"
    ELSE IF score >= 2000 THEN "LOW"
    ELSE "MINIMAL"

\* _generate_recommendations: the pair of lines chosen by the score (in
\* hundredths) and the number printed in the red-flag line (0: no such line)
generate_recommendations(risk_score, n_red_flags) ==
    [advice |-> IF risk_score >= 8000 THEN "AVOID"
                ELSE IF risk_score >= 6000 THEN "HIGH RISK"
                ELSE IF risk_score >= 4000 THEN "MEDIUM RISK"
                ELSE "Lower risk",
     issues |-> n_red_flags]

\* ModuleResult(module_name, risk_score, warnings, data): pydantic accepts a
\* number between 0 and 100
ModuleResult_validates(risk) == risk.kind = "num" /\ risk.val >= 0 /\ risk.val <= 100

AggStart == [exc |-> FALSE, modules |-> NoFeatures, all_warnings |-> <<>>, red_flags |-> <<>>]

\* the for loop of _aggregate_results
RECURSIVE aggregate_loop(_, _, _)
aggregate_loop(mr, names, acc) ==
    IF names = <<>> \/ acc.exc THEN acc
    ELSE LET module_name == Head(names)
             result == mr[module_name]
             warnings == IF result.warnings.kind = "absent" THEN <<>> ELSE result.warnings.items
             risk0 == risk_get(result, 0)
             risk50 == risk_get(result, 50)
             next ==
                IF result.warnings.kind = "none" THEN [acc EXCEPT !.exc = TRUE]    \* extend(None)
                ELSE IF risk0.kind = "notnum" THEN [acc EXCEPT !.exc = TRUE]       \* str >= 70
                ELSE IF ~ModuleResult_validates(risk50) THEN [acc EXCEPT !.exc = TRUE]
                ELSE [exc |-> FALSE,
                      modules |-> dict_set(acc.modules, module_name,
                                           [risk_score |-> risk50.val, warnings |-> warnings]),
                      all_warnings |-> acc.all_warnings \o warnings,
                      red_flags |-> IF risk0.val >= 70
                                    THEN acc.red_flags \o slice(warnings, 0, 2)
                                    ELSE acc.red_flags]
         IN  aggregate_loop(mr, Tail(names), next)

\* list(set(red_flags))[:5]: the order of a set of strings is not fixed, so
\* any five of the distinct flags can come out; the result is kept as a set
red_flag_choices(red_flags) ==
    LET distinct == {red_flags[i] : i \in 1..Len(red_flags)}
    IN  IF Cardinality(distinct) <= 5 THEN {distinct}
        ELSE {S \in SUBSET distinct : Cardinality(S) = 5}

\* variant: an UNKNOWN honeypot verdict lifts the score to at least 50
aggregate_risk_score_blended(ml, honeypot) ==
    IF honeypot.verdict = "UNKNOWN" /\ ml.risk_score < 5000 THEN 5000 ELSE ml.risk_score

\* risk_score = ml_result.get("risk_score", 50) in _aggregate_results, which
\* also receives honeypot_result
aggregate_risk_score(ml, honeypot) == ml.risk_score

\* variant: the honeypot result is filed under modules as well
response_fields_honeypot_in_modules(agg, ml, honeypot, red_flags) ==
    [risk_score |-> round2(Rat(aggregate_risk_score(ml, honeypot), 100)),
     risk_level |-> format_risk_level(aggregate_risk_score(ml, honeypot)),
     modules |-> dict_set(agg.modules, "honeypot",
                          [risk_score |-> 0, warnings |-> honeypot.warnings]),
     honeypot_simulation |-> honeypot,
     warnings |-> agg.all_warnings,
     red_flags |-> red_flags,
     recommendations |-> generate_recommendations(aggregate_risk_score(ml, honeypot),
                                                  Cardinality(red_flags)),
     feature_importance |-> ml.feature_importance,
     cached |-> FALSE]

\* the dict _aggregate_results returns, with the two keys analyze adds;
\* scores in hundredths
response_fields(agg, ml, honeypot, red_flags) ==
    [risk_score |-> round2(Rat(aggregate_risk_score(ml, honeypot), 100)),
     risk_level |-> format_risk_level(aggregate_risk_score(ml, honeypot)),
     modules |-> agg.modules,
     honeypot_simulation |-> honeypot,
     warnings |-> agg.all_warnings,
     red_flags |-> red_flags,
     recommendations |-> generate_recommendations(aggregate_risk_score(ml, honeypot),
                                                  Cardinality(red_flags)),
     feature_importance |-> ml.feature_importance,
     cached |-> FALSE]

\* sample results and exceptions of the analyzers
SampleFeatures(module_name, value) ==
    FMap([k \in {module_name, "shared_feature"} |-> value])

WarnSellTax ==
    <<"H","i","d","d","e","n"," ","s","e","l","l"," ","t","a","x">>
WarnProxy ==
    <<"U","p","g","r","a","d","e","a","b","l","e"," ","p","r","o","x","y">>

\* an analyzer whose analyze() never returns
AnalyzerHangs == [kind |-> "hangs", result |-> EmptyDict, text |-> <<>>]

SecurityBehaviours ==
    {AnalyzerReturns(MkResult(r, w, FNoKey, NoError)) :
        r \in {Num(0), NoKey, Num(20)},
        w \in {WList(<<>>), WNoKey, WNone, WList(<<WarnVerifiedSafe>>)}}
    \cup {AnalyzerReturns(MkResult(Num(0), WList(<<>>), SampleFeatures("contract_security", 1), NoError)),
          AnalyzerRaises(ErrTimeout), AnalyzerRaises(<<>>)}

\* the position of an analyzer in self.modules
ModuleIndex(module_name) ==
    CHOOSE i \in 1..Len(ModuleOrder) : ModuleOrder[i] = module_name

\* the shared feature carries a value that tells the analyzers apart
PlainReturn(module_name) ==
    AnalyzerReturns(MkResult(Num(0), WList(<<>>),
                             SampleFeatures(module_name, ModuleIndex(module_name)), NoError))

AnalyzerBehaviours(module_name) ==
    CASE module_name = "contract_security" -> SecurityBehaviours
      [] module_name = "holder_analysis" ->
            {PlainReturn(module_name), AnalyzerRaises(ErrTimeout),
             AnalyzerReturns(MkResult(Num(150), WList(<<WarnOwner>>), FNoKey, NoError)),
             AnalyzerReturns(MkResult(Num(80), WList(<<WarnOwner, WarnSellTax, WarnProxy>>),
                                      FNoKey, NoError))}
      [] module_name = "liquidity_pool" ->
            {PlainReturn(module_name), AnalyzerRaises(ErrTimeout), AnalyzerHangs,
             AnalyzerReturns(MkResult(Num(60), WList(<<>>), FNoKey, NoError))}
      [] module_name = "pattern_matching" ->
            {PlainReturn(module_name),
             AnalyzerReturns(MkResult(NotNum, WNone, FNoKey, NoError))}
      [] OTHER -> {PlainReturn(module_name), AnalyzerRaises(ErrTimeout)}

ModuleNames == {ModuleOrder[i] : i \in 1..Len(ModuleOrder)}

\* the states of self.ml_scorer.ensemble_model met by the orchestrator
PipelineEnsembles == {[kind |-> "unavailable", val |-> 0], [kind |-> "value", val |-> 150]}

Init ==
    /\ pc = "start"
    /\ module_results = NoFeatures
    /\ ensemble \in PipelineEnsembles
    /\ ml_result = NotCalled
    /\ mod_idx = 1
    /\ analyzers \in [contract_security : AnalyzerBehaviours("contract_security"),
                      holder_analysis : AnalyzerBehaviours("holder_analysis"),
                      liquidity_pool : AnalyzerBehaviours("liquidity_pool"),
                      transfer_anomaly : AnalyzerBehaviours("transfer_anomaly"),
                      pattern_matching : AnalyzerBehaviours("pattern_matching"),
                      tokenomics : AnalyzerBehaviours("tokenomics")]
    /\ hp_env \in [has_w3 : BOOLEAN]
    /\ hp = HpIdle
    /\ client \in [get_contract_info : {"returns", "raises"}]
    /\ contract_info = NoContractInfo
    /\ features = NoFeatures
    /\ honeypot_result = NoHoneypotResult
    /\ response = NoResponse
    /\ WebSocketManagerInit
    /\ RateLimitMiddlewareInit

\* Step 1: contract_info = await self._get_contract_info(address)
GetContractInfo ==
    /\ pc = "start"
    /\ contract_info' = get_contract_info(client)
    /\ pc' = "run_modules"
    /\ UNCHANGED <<module_results, ensemble, ml_result, mod_idx, analyzers, hp_env, hp,
                   client, features, honeypot_result, response,
                 ws_vars, rl_vars>>

\* Step 2: one iteration of the for loop of _run_modules; the last one
\* returns results.  An analyzer that never returns leaves the loop waiting.
RunModule ==
    /\ pc = "run_modules"
    /\ mod_idx \in 1..Len(ModuleOrder)
    /\ analyzers[ModuleOrder[mod_idx]].kind # "hangs"
    /\ LET module_name == ModuleOrder[mod_idx]
           r == run_module(module_name, analyzers[module_name])
       IN  IF r.exc
           THEN /\ pc' = "modules_raised"
                /\ response' = Response(TRUE, <<>>)
                /\ UNCHANGED <<module_results, mod_idx>>
           ELSE /\ module_results' = dict_set(module_results, module_name, r.result)
                /\ mod_idx' = mod_idx + 1
                /\ pc' = IF mod_idx = Len(ModuleOrder) THEN "modules_done" ELSE "run_modules"
                /\ UNCHANGED response
    /\ UNCHANGED <<ensemble, ml_result, analyzers, hp_env, hp,
                   client, contract_info, features, honeypot_result,
                 ws_vars, rl_vars>>

\* variant: the honeypot step does not wait for the analyzers
RunHoneypot_during_modules ==
    /\ pc \in {"run_modules", "modules_done"}
    /\ honeypot_result = NoHoneypotResult
    /\ honeypot_result' = run_honeypot(hp)
    /\ pc' = IF pc = "modules_done" THEN "features" ELSE pc
    /\ UNCHANGED <<module_results, ensemble, ml_result, mod_idx, analyzers, hp_env, hp,
                   client, contract_info, features, response,
                 ws_vars, rl_vars>>

\* Step 2.5: the honeypot simulation, or its placeholder
RunHoneypot ==
    /\ pc = "modules_done"
    /\ honeypot_result' = run_honeypot(hp)
    /\ pc' = "features"
    /\ UNCHANGED <<module_results, ensemble, ml_result, mod_idx, analyzers, hp_env, hp,
                   client, contract_info, features, response,
                 ws_vars, rl_vars>>

\* Step 3: features = self._extract_features(module_results)
ExtractFeatures ==
    /\ pc = "features"
    /\ features' = extract_features(module_results)
    /\ pc' = "fusion"
    /\ UNCHANGED <<module_results, ensemble, ml_result, mod_idx, analyzers, hp_env, hp,
                   client, contract_info, honeypot_result, response,
                 ws_vars, rl_vars>>

\* predict raised: the except clause of analyze logs and re-raises
Reraise ==
    /\ pc = "fused"
    /\ ml_result.exc
    /\ response' = Response(TRUE, <<>>)
    /\ pc' = "raised"
    /\ UNCHANGED <<module_results, ensemble, ml_result, mod_idx, analyzers, hp_env, hp,
                   client, contract_info, features, honeypot_result,
                 ws_vars, rl_vars>>

\* Step 5: _aggregate_results and the return of analyze; an exception in it
\* is re-raised by the except clause of analyze
Aggregate ==
    /\ pc = "fused"
    /\ ~ml_result.exc
    /\ LET agg == aggregate_loop(module_results, keys_in_order(module_results), AggStart)
       IN  IF agg.exc
           THEN /\ response' = Response(TRUE, <<>>)
                /\ pc' = "raised"
           ELSE /\ \E red_flags \in red_flag_choices(agg.red_flags) :
                      response' = Response(FALSE, response_fields(agg, ml_result.ret,
                                                                  honeypot_result, red_flags))
                /\ pc' = "responded"
    /\ UNCHANGED <<module_results, ensemble, ml_result, mod_idx, analyzers, hp_env, hp,
                   client, contract_info, features, honeypot_result,
                 ws_vars, rl_vars>>

Next ==
    \/ GetContractInfo
    \/ RunModule
    \/ RunHoneypot
    \/ ExtractFeatures
    \/ Fuse
    \/ Reraise
    \/ Aggregate

Spec == Init /\ [][Next]_vars

\* the event loop resumes the coroutine of analyze whenever it can take a step
SpecLive == Spec /\ WF_vars(Next)

-----------------------------------------------------------------------------
(* Properties of the orchestrator *)

\* C10: in _run_modules an analyzer whose analyze call raises is replaced by
\* a result with risk_score 50, one warning that describes the failure, and
\* no features (the features read from it are the empty map); the exception
\* does not leave _run_modules, and every other analyzer is still run
C10_FailedAnalyzer ==
    /\ pc # "modules_raised"
    /\ \A name \in DOMAIN module_results :
          analyzers[name].kind = "raises" =>
             LET result == module_results[name]
             IN  /\ result.risk = Num(50)
                 /\ result.warnings = WList(<<ModuleFailedPrefix \o analyzers[name].text>>)
                 /\ extract_features([n \in {name} |-> result]) = NoFeatures
    /\ pc = "modules_done" => DOMAIN module_results = ModuleNames

\* the first analyzer raised, a later one returned, and the loop has finished
C10_Witness ==
    /\ pc = "modules_done"
    /\ analyzers["contract_security"].kind = "raises"
    /\ analyzers["contract_security"].text = ErrTimeout
    /\ analyzers["holder_analysis"].kind = "returns"
    /\ module_results["holder_analysis"].risk = Num(0)

\* _run_modules has returned its map
ModulesReturned == pc \in {"modules_done", "features", "fusion", "fused", "responded", "raised"}

\* what the zero-risk rule makes of a result
ZeroRiskRewrite(result) ==
    [result EXCEPT !.risk = Num(50), !.warnings = WList(<<WarnZeroRisk1, WarnZeroRisk2>>)]

\* C11: whichever analyzers fail, the map _run_modules returns has exactly
\* one entry per registered analyzer, and the entry of an analyzer that
\* returned is what it returned (for contract_security, possibly rewritten by
\* the zero-risk rule); while the loop runs the map holds the entries of the
\* analyzers already called
C11_OneEntryPerAnalyzer ==
    /\ pc = "run_modules" =>
          DOMAIN module_results = {ModuleOrder[i] : i \in 1..(mod_idx - 1)}
    /\ ModulesReturned => DOMAIN module_results = ModuleNames
    /\ (pc = "run_modules" \/ ModulesReturned) =>
          \A name \in DOMAIN module_results :
             analyzers[name].kind = "returns" =>
                \/ module_results[name] = analyzers[name].result
                \/ /\ name = "contract_security"
                   /\ module_results[name] = ZeroRiskRewrite(analyzers[name].result)

\* two analyzers failed, two returned, and the map is complete
C11_Witness ==
    /\ ModulesReturned
    /\ analyzers["holder_analysis"].kind = "raises"
    /\ analyzers["tokenomics"].kind = "raises"
    /\ analyzers["liquidity_pool"].kind = "returns"
    /\ analyzers["contract_security"].kind = "returns"
    /\ module_results["liquidity_pool"] = analyzers["liquidity_pool"].result
    /\ module_results["holder_analysis"].error.present

\* C12: a contract_security result with risk_score 0 and an empty or missing
\* warnings list is stored with risk_score 50 and the two explanatory
\* warnings; a contract_security result with risk_score 0 and at least one
\* warning, and a result with risk_score 0 of any other analyzer, is stored
\* unchanged
C12_ZeroRiskRule ==
    (pc = "run_modules" \/ ModulesReturned) =>
       \A name \in DOMAIN module_results :
          (analyzers[name].kind = "returns" /\ analyzers[name].result.risk = Num(0)) =>
             LET returned == analyzers[name].result
                 stored == module_results[name]
             IN  /\ (name = "contract_security"
                       /\ returned.warnings \in {WList(<<>>), WNoKey}) =>
                        /\ stored.risk = Num(50)
                        /\ stored.warnings = WList(<<WarnZeroRisk1, WarnZeroRisk2>>)
                        /\ stored.features = returned.features
                 /\ (name = "contract_security"
                       /\ returned.warnings.kind = "list"
                       /\ Len(returned.warnings.items) >= 1) =>
                        stored = returned
                 /\ name # "contract_security" => stored = returned

\* the rule fired on contract_security and left a zero-risk result of another
\* analyzer alone
C12_Witness ==
    /\ ModulesReturned
    /\ analyzers["contract_security"].kind = "returns"
    /\ analyzers["contract_security"].result.risk = Num(0)
    /\ analyzers["contract_security"].result.warnings = WList(<<>>)
    /\ module_results["contract_security"].risk = Num(50)
    /\ analyzers["holder_analysis"].kind = "returns"
    /\ module_results["holder_analysis"].risk = Num(0)
    /\ module_results["holder_analysis"].warnings = WList(<<>>)

\* contract_security returned risk 0 with a warning and was left alone
C12_WitnessKept ==
    /\ ModulesReturned
    /\ analyzers["contract_security"].kind = "returns"
    /\ analyzers["contract_security"].result.warnings = WList(<<WarnVerifiedSafe>>)
    /\ module_results["contract_security"].risk = Num(0)

\* analyze has returned its response dict
Responded == pc = "responded"

\* the level that belongs to a score in hundredths
SpecRiskLevel(score) ==
    CASE score >= 8000 -> "CRITICAL"
      [] score >= 6000 /\ score < 8000 -> "HIGH"
      [] score >= 4000 /\ score < 6000 -> "MEDIUM"
      [] score >= 2000 /\ score < 4000 -> "LOW"
      [] OTHER -> "MINIMAL"

\* C14: the risk_score and the risk_level of the response are determined by
\* the module results and the ensemble alone: they are the fusion of the two,
\* whatever the honeypot step produced
C14_ScoreIgnoresHoneypot ==
    Responded =>
       LET fused == predict(module_results, ensemble)
       IN  /\ ~fused.exc
           /\ response.fields.risk_score = fused.ret.risk_score
           /\ response.fields.risk_level = SpecRiskLevel(fused.ret.risk_score)

\* a response with score 75 next to a honeypot step that ended in UNKNOWN
C14_Witness ==
    /\ Responded
    /\ response.fields.honeypot_simulation.verdict = "UNKNOWN"
    /\ response.fields.honeypot_simulation.error.present
    /\ response.fields.risk_score = 7500
    /\ response.fields.risk_level = "HIGH"

\* the warnings of the stored module results, in the order of self.modules
RECURSIVE ModuleWarnings(_)
ModuleWarnings(i) ==
    IF i = 0 THEN <<>>
    ELSE LET w == module_results[ModuleOrder[i]].warnings
         IN  ModuleWarnings(i - 1) \o (IF w.kind = "list" THEN w.items ELSE <<>>)

\* C15: in a response the honeypot result is the value of honeypot_simulation
\* and nothing else: modules has exactly the registered analyzer names as
\* keys, warnings is the concatenation of the module warnings, and every red
\* flag is a module warning
C15_HoneypotKeptApart ==
    Responded =>
       /\ DOMAIN response.fields.modules = ModuleNames
       /\ response.fields.honeypot_simulation = honeypot_result
       /\ response.fields.warnings = ModuleWarnings(Len(ModuleOrder))
       /\ \A flag \in response.fields.red_flags :
             \E i \in 1..Len(response.fields.warnings) : response.fields.warnings[i] = flag
       /\ \A name \in ModuleNames :
             LET w == module_results[name].warnings
             IN  response.fields.modules[name].warnings = (IF w.kind = "list" THEN w.items ELSE <<>>)

\* a response with module warnings, red flags and a honeypot result
C15_Witness ==
    /\ Responded
    /\ response.fields.honeypot_simulation.verdict = "UNKNOWN"
    /\ response.fields.red_flags = {WarnOwner, WarnSellTax}
    /\ Len(response.fields.warnings) >= 4

\* C17: analyze returns a result in all cases; no exception leaves it
C17_AsStated == pc \notin {"raised", "modules_raised"}

\* C19: whenever the simulator itself can run (the blockchain client has a
\* usable w3), the honeypot_simulation field of the response is a result of
\* the simulator, not the placeholder of the orchestrator
C19_AsStated ==
    (Responded /\ hp_env.has_w3) =>
        /\ ~response.fields.honeypot_simulation.error.present
        /\ response.fields.honeypot_simulation.verdict # "UNKNOWN"

\* some analyzer of this request never returns
SomeAnalyzerHangs == \E name \in ModuleNames : analyzers[name].kind = "hangs"

\* the analysis is over, every analyzer has its entry, and an analyzer that
\* never returned has been given the failure result
CompletedDespiteHang ==
    /\ pc \in {"responded", "raised"}
    /\ DOMAIN module_results = ModuleNames
    /\ \A name \in ModuleNames :
          analyzers[name].kind = "hangs" => module_results[name].risk = Num(50)

\* C18: when one analyzer never returns, the results of the other analyzers
\* are still produced, the slow one is replaced by the failure result, and
\* the analysis eventually completes
C18_AsStated == SomeAnalyzerHangs ~> CompletedDespiteHang

-----------------------------------------------------------------------------
(* Further properties of the honeypot simulator *)

\* the three revert reasons of the major-pool rule
NeedleInsufficientAllowance ==
    <<"i","n","s","u","f","f","i","c","i","e","n","t"," ","a","l","l","o","w","a","n","c","e">>
NeedleExceedsBalance ==
    <<"e","x","c","e","e","d","s"," ","b","a","l","a","n","c","e">>
NeedleTransferFromFailed ==
    <<"t","r","a","n","s","f","e","r","_","f","r","o","m","_","f","a","i","l","e","d">>

NamedPoolReason(message) ==
    \E needle \in {NeedleInsufficientAllowance, NeedleExceedsBalance, NeedleTransferFromFailed} :
        str_in(needle, lower(message))

\* the sell step ran on a holder and its approve or swap call reverted
SellReverted == hp.sell.path \in {"approve revert", "revert"}

\* C13: when the holder is a major pool (the 50,000-token holder of the
\* example), a sell that reverts with one of the three named reasons counts
\* as a success
C13_AsStated ==
    (SellReverted /\ hp.balance = 50000 /\ NamedPoolReason(hp.sell.message)) =>
        hp.sell.success

\* a step of the simulation could not build its call
SetupFailed ==
    \/ hp.buy.path = "setup"
    \/ hp.sell.path = "setup"
    \/ hp.transfer.path = "setup"

\* C16: a simulation that met a setup failure in its buy, sell or transfer
\* step, or an unusable blockchain client, ends with verdict UNKNOWN and
\* confidence none
C16_AsStated ==
    (hp.stage = "done" /\ (SetupFailed \/ ~hp_env.has_w3)) =>
        /\ hp.verdict = "UNKNOWN"
        /\ hp.verdict_confidence = "none"

\* the transfer test has been executed
TransferRan == hp.transfer.path # "not run"

\* C20: the transfer test is executed only after a sell step that ran and
\* failed, never after a sell that succeeded or was skipped and never before
\* the sell step; after a failed sell it is always executed
C20_TransferAfterFailedSell ==
    /\ TransferRan =>
          /\ hp.sell.path \notin {"not run", "skipped"}
          /\ ~hp.sell.success
          /\ hp.stage \in {"verdict", "done"}
    /\ (hp.stage \in {"verdict", "done"} /\ ~hp.error /\ ~hp.sell.success) => TransferRan
    /\ hp.stage \in {"start", "find_holder", "sell", "transfer"} => ~TransferRan

\* the sell reverted and the transfer test then succeeded
C20_Witness ==
    /\ hp.stage = "done"
    /\ hp.sell.path = "revert"
    /\ hp.transfer.path = "ok"
    /\ hp.can_transfer = 10

\* the warnings list of analyze holds a warning built by the given f-string
HasWarning(kind) == \E i \in DOMAIN hp.warnings : hp.warnings[i].kind = kind

\* the sell step has been passed
SellStepDone == hp.stage \in {"transfer", "verdict", "done"} /\ ~hp.error

\* what the buy step added to risk_score
BuyPenalty ==
    IF ~hp.buy.success THEN 60
    ELSE IF hp.buy.gas.some /\ hp.buy.gas.val > 300000 THEN 10
    ELSE 0

\* C21: when no token holder is found the sell step is skipped, not failed:
\* simulate_sell makes no call and returns success with the skipped message,
\* analyze adds no honeypot warning and no sell penalty and runs no transfer
\* test, and the verdict is SAFE/medium after a good buy, LOCKED/high after a
\* failed buy
C21_SkippedSell ==
    /\ \A b \in SellBehaviours :
          b.find = NoHolder =>
              simulate_sell(NoHolder, b) = StepResult(TRUE, MsgSellSkipped, NoGas, "skipped")
    /\ (SellStepDone /\ hp.holder_address # NoHolder) => hp.sell.path # "skipped"
    /\ (SellStepDone /\ hp.sell.path = "skipped") =>
          /\ hp.holder_address = NoHolder
          /\ hp.sell.success
          /\ ~hp.sell.gas.some
          /\ hp.can_sell = 10
          /\ ~HasWarning("HONEYPOT DETECTED")
          /\ ~HasWarning("High sell gas cost")
          /\ hp.transfer.path = "not run"
          /\ hp.stage \in {"transfer", "verdict"} => hp.risk_score = BuyPenalty
          /\ hp.stage = "done" =>
                /\ hp.risk_score <= BuyPenalty
                /\ hp.verdict = IF hp.buy.success THEN "SAFE" ELSE "LOCKED"
                /\ hp.verdict_confidence = IF hp.buy.success THEN "medium" ELSE "high"

\* no holder was found, the buy worked: SAFE with medium confidence
C21_Witness ==
    /\ HpReturned
    /\ hp.holder_address = NoHolder
    /\ hp.sell.path = "skipped"
    /\ hp.buy.success
    /\ hp.verdict = "SAFE"
    /\ hp.verdict_confidence = "medium"

\* the buy step has been passed
BuyStepDone == hp.stage # "start"

NeedleInsufficientFunds ==
    <<"i","n","s","u","f","f","i","c","i","e","n","t"," ","f","u","n","d","s">>

\* C22: a reverted buy call gives success = false with the parsed reason; a
\* buy call that raised another exception gives success = true exactly when
\* the exception is an insufficient-funds error
C22_AsStated ==
    /\ (BuyStepDone /\ hp.buy.path = "revert") => ~hp.buy.success
    /\ (BuyStepDone /\ hp.buy.path = "error") =>
          (hp.buy.success <=> str_in(NeedleInsufficientFunds, lower(hp.buy.message)))

\* both gas estimates are known
BothGasKnown == hp.buy.gas.some /\ hp.sell.gas.some

\* sell gas / buy gas > 2
GasRatioAboveTwo == hp.sell.gas.val > 2 * hp.buy.gas.val

\* C23: a sell gas more than twice the buy gas adds the gas warning and
\* leaves verdict and confidence alone: the runs that have both gas
\* estimates all have a good buy and a good sell, and all of them get
\* SAFE/high, whatever the ratio
C23_GasRatioOnlyWarns ==
    (HpReturned /\ BothGasKnown) =>
        /\ hp.buy.success /\ hp.sell.success
        /\ HasWarning("Sell gas is higher than buy") <=> GasRatioAboveTwo
        /\ hp.verdict = "SAFE"
        /\ hp.verdict_confidence = "high"

\* sell gas 450000 against buy gas 100000: warned, and SAFE/high
C23_Witness ==
    /\ HpReturned
    /\ BothGasKnown
    /\ GasRatioAboveTwo
    /\ HasWarning("Sell gas is higher than buy")
    /\ hp.verdict = "SAFE"

\* the sell step made its calls and did not succeed
SellRanAndFailed == hp.sell.path \in {"approve revert", "revert", "error", "setup"}

\* C27: a sell that was executed and failed is never treated as skipped,
\* whatever its message says: a good buy followed by such a sell never gets
\* the verdict SAFE
C27_AsStated ==
    (HpReturned /\ hp.buy.success /\ SellRanAndFailed) => hp.verdict # "SAFE"

-----------------------------------------------------------------------------
(* Further properties of the orchestrator *)

\* the honeypot step has finished, with a result or with the placeholder
HoneypotFinished == honeypot_result # NoHoneypotResult

\* predict has been called
FusionStarted == ml_result # NotCalled

\* C24: the stages of one analyze call run in the order analyzers, honeypot
\* simulation, score fusion: the honeypot step has produced nothing while
\* the analyzer loop runs, it finishes only when every analyzer has its
\* entry, and fusion is called only after the honeypot step has finished
C24_StageOrder ==
    /\ pc \in {"start", "run_modules", "modules_done"} => ~HoneypotFinished /\ ~FusionStarted
    /\ HoneypotFinished => DOMAIN module_results = ModuleNames
    /\ FusionStarted => HoneypotFinished

\* fusion has returned after the honeypot step ended in its placeholder and
\* one analyzer had failed
C24_Witness ==
    /\ pc = "fused"
    /\ FusionStarted
    /\ honeypot_result.verdict = "UNKNOWN"
    /\ module_results["transfer_anomaly"].error.present

\* _extract_features has returned
FeaturesExtracted == pc \in {"fusion", "fused", "responded", "raised"}

\* the stored result of the i-th analyzer has a features map with key k
HasFeature(i, k) ==
    LET f == module_results[ModuleOrder[i]].features
    IN  f.kind = "map" /\ k \in DOMAIN f.map

\* the last analyzer, in the order of self.modules, whose features have key k
LastWriter(k) ==
    CHOOSE i \in 1..Len(ModuleOrder) :
        HasFeature(i, k) /\ \A j \in (i + 1)..Len(ModuleOrder) : ~HasFeature(j, k)

\* C25: the feature vector is the merge of the features maps of the module
\* results in the order of self.modules: its keys are all the keys of all
\* the maps, each key has the value of the last analyzer that has it, and a
\* result without features adds nothing
C25_FeatureMerge ==
    FeaturesExtracted =>
       /\ \A k \in DOMAIN features : \E i \in 1..Len(ModuleOrder) : HasFeature(i, k)
       /\ \A i \in 1..Len(ModuleOrder) :
             LET f == module_results[ModuleOrder[i]].features
             IN  f.kind = "map" => DOMAIN f.map \subseteq DOMAIN features
       /\ \A k \in DOMAIN features :
             features[k] = module_results[ModuleOrder[LastWriter(k)]].features.map[k]

\* tokenomics failed and has no features: the shared key has the value of
\* pattern_matching, not that of contract_security, whose own key is kept
C25_Witness ==
    /\ FeaturesExtracted
    /\ module_results["tokenomics"].features.kind = "absent"
    /\ module_results["contract_security"].features.kind = "map"
    /\ module_results["contract_security"].features.map["shared_feature"] = 1
    /\ "contract_security" \in DOMAIN features
    /\ "tokenomics" \notin DOMAIN features
    /\ features["shared_feature"] = 5

\* the zero-risk rule rewrote the result of contract_security
ZeroRiskFired ==
    /\ ModulesReturned
    /\ analyzers["contract_security"].kind = "returns"
    /\ module_results["contract_security"] # analyzers["contract_security"].result

\* the analyze call has ended, by return or by exception
AnalysisEnded == pc \in {"responded", "raised"}

\* C26: whenever the zero-risk rule fired, the analysis ends with a response
\* whose risk_score is 75, from a fusion with confidence 90, whatever the
\* other analyzers and the ensemble return
C26_AsStated ==
    (ZeroRiskFired /\ AnalysisEnded) =>
        /\ pc = "responded"
        /\ response.fields.risk_score = 7500
        /\ ml_result.ret.confidence = 90

-----------------------------------------------------------------------------
(* The WebSocket manager: services/websocket_manager.py *)

\* token addresses and WebSocket objects of the clients
Addresses == {"0xA", "0xB"}
Sockets == {"ws1", "ws2", "ws3"}

\* the three dicts of a WebSocketManager, and the tasks that run for it
Manager(connections, status, registered, running) ==
    [active_connections |-> connections, monitoring_status |-> status,
     monitor_tasks |-> registered, running_tasks |-> running]

\* del dict[key]
dict_del(dict, key) == [k \in DOMAIN dict \ {key} |-> dict[k]]

\* list.remove(x): the first occurrence goes; ValueError, passed over, if none
list_remove(list, x) ==
    IF \E i \in 1..Len(list) : list[i] = x
    THEN LET first == CHOOSE i \in 1..Len(list) :
                          list[i] = x /\ \A j \in 1..(i - 1) : list[j] # x
         IN  SubSeq(list, 1, first - 1) \o SubSeq(list, first + 1, Len(list))
    ELSE list

\* the number of monitor tasks that run for an address
running(m, address) ==
    IF address \in DOMAIN m.running_tasks THEN m.running_tasks[address] ELSE 0

\* asyncio.create_task(self._monitor_token(address, chain))
create_task(m, address) ==
    [m EXCEPT !.running_tasks = dict_set(@, address, running(m, address) + 1)]

\* task.cancel(): the task ends at its next await
cancel_task(m, address) ==
    [m EXCEPT !.running_tasks = dict_set(@, address, running(m, address) - 1)]

\* start_monitoring
start_monitoring(m, address) ==
    IF address \in DOMAIN m.monitor_tasks THEN m
    ELSE LET with_status == [m EXCEPT !.monitoring_status =
                                          dict_set(@, address, [active |-> TRUE])]
             with_task == create_task(with_status, address)
         IN  [with_task EXCEPT !.monitor_tasks = dict_set(@, address, "task")]

\* stop_monitoring
stop_monitoring(m, address) ==
    LET stopped == IF address \in DOMAIN m.monitor_tasks
                   THEN [cancel_task(m, address) EXCEPT
                            !.monitor_tasks = dict_del(@, address)]
                   ELSE m
    IN  IF address \in DOMAIN stopped.monitoring_status
        THEN [stopped EXCEPT !.monitoring_status[address].active = FALSE]
        ELSE stopped

\* get_monitor_status(address, chain), field active
get_monitor_status(status, address) ==
    IF address \in DOMAIN status THEN status[address] ELSE [active |-> FALSE]

\* connect; accepted is whether websocket.accept() returned
connect(m, websocket, address, accepted) ==
    IF ~accepted THEN m
    ELSE LET list == IF address \in DOMAIN m.active_connections
                     THEN m.active_connections[address] ELSE <<>>
             appended == [m EXCEPT !.active_connections =
                                       dict_set(@, address, Append(list, websocket))]
         IN  IF address \notin DOMAIN appended.monitor_tasks
             THEN start_monitoring(appended, address)
             ELSE appended

\* disconnect
disconnect(m, websocket, address) ==
    IF address \notin DOMAIN m.active_connections THEN m
    ELSE LET list == list_remove(m.active_connections[address], websocket)
         IN  IF list # <<>>
             THEN [m EXCEPT !.active_connections[address] = list]
             ELSE LET removed == [m EXCEPT !.active_connections = dict_del(@, address)]
                  IN  IF address \in DOMAIN removed.monitor_tasks
                      THEN [cancel_task(removed, address) EXCEPT
                               !.monitor_tasks = dict_del(@, address)]
                      ELSE removed

\* for ws in dead_connections: self.disconnect(ws, address)
RECURSIVE disconnect_each(_, _, _)
disconnect_each(m, dead_connections, address) ==
    IF dead_connections = <<>> THEN m
    ELSE disconnect_each(disconnect(m, Head(dead_connections), address),
                         Tail(dead_connections), address)

\* broadcast; dead is the set of connections whose send_json raises
broadcast(m, address, dead) ==
    IF address \notin DOMAIN m.active_connections THEN m
    ELSE disconnect_each(m,
                         SelectSeq(m.active_connections[address], LAMBDA ws : ws \in dead),
                         address)

\* the manager in its present state
ThisManager == Manager(active_connections, monitoring_status, monitor_tasks, running_tasks)

\* the connections registered under any address
Connected ==
    UNION {{active_connections[a][i] : i \in 1..Len(active_connections[a])} :
              a \in DOMAIN active_connections}

\* the manager takes the state m after the call op on address
ManagerBecomes(m, op, address) ==
    /\ active_connections' = m.active_connections
    /\ monitoring_status' = m.monitoring_status
    /\ monitor_tasks' = m.monitor_tasks
    /\ running_tasks' = m.running_tasks
    /\ ws_last' = [op |-> op, address |-> address,
                   emptied |-> /\ address \in DOMAIN active_connections
                               /\ address \notin DOMAIN m.active_connections]
    /\ UNCHANGED <<core_vars, rl_vars>>

\* a client opens /monitor/ws/{address}: a new WebSocket object is connected
WsConnect ==
    /\ pc = "websocket"
    /\ \E websocket \in Sockets \ Connected, address \in Addresses, accepted \in BOOLEAN :
          ManagerBecomes(connect(ThisManager, websocket, address, accepted),
                         "connect", address)

\* WebSocketDisconnect, or an error, in the endpoint of a connection
WsDisconnect ==
    /\ pc = "websocket"
    /\ \E websocket \in Sockets, address \in Addresses :
          ManagerBecomes(disconnect(ThisManager, websocket, address), "disconnect", address)

\* the heartbeat of a running monitor task
WsBroadcast ==
    /\ pc = "websocket"
    /\ \E address \in Addresses, dead \in SUBSET Sockets :
          /\ running(ThisManager, address) > 0
          /\ ManagerBecomes(broadcast(ThisManager, address, dead), "broadcast", address)

\* POST /monitor/{address}/start
WsStartMonitoring ==
    /\ pc = "websocket"
    /\ \E address \in Addresses :
          ManagerBecomes(start_monitoring(ThisManager, address), "start_monitoring", address)

\* POST /monitor/{address}/stop
WsStopMonitoring ==
    /\ pc = "websocket"
    /\ \E address \in Addresses :
          ManagerBecomes(stop_monitoring(ThisManager, address), "stop_monitoring", address)

\* everything but the WebSocketManager is idle
InitWebSocket ==
    /\ pc = "websocket"
    /\ module_results = NoEntries
    /\ ensemble = [kind |-> "unavailable", val |-> 0]
    /\ ml_result = NotCalled
    /\ mod_idx = 0
    /\ analyzers = AnalyzersIdle
    /\ hp_env = HpIdleEnv
    /\ hp = HpIdle
    /\ client = ClientIdle
    /\ contract_info = NoContractInfo
    /\ features = NoFeatures
    /\ honeypot_result = NoHoneypotResult
    /\ response = NoResponse
    /\ WebSocketManagerInit
    /\ RateLimitMiddlewareInit

NextWebSocket ==
    \/ WsConnect
    \/ WsDisconnect
    \/ WsBroadcast
    \/ WsStartMonitoring
    \/ WsStopMonitoring

SpecWebSocket == InitWebSocket /\ [][NextWebSocket]_vars

\* C28: after any sequence of calls, every address with a registered
\* connection has a registered monitor task, no address has more than one
\* monitor task, and the call that disconnects the last connection of an
\* address leaves no monitor task registered for it
C28_AsStated ==
    /\ \A address \in DOMAIN active_connections :
          active_connections[address] # <<>> => address \in DOMAIN monitor_tasks
    /\ \A address \in Addresses : running(ThisManager, address) <= 1
    /\ ws_last.emptied => ws_last.address \notin DOMAIN monitor_tasks

\* C29: the status reported for an address is active exactly when a monitor
\* task is registered for it
C29_AsStated ==
    \A address \in Addresses :
        get_monitor_status(monitoring_status, address).active
            <=> address \in DOMAIN monitor_tasks

-----------------------------------------------------------------------------
(* Rate limiting: api/middleware/rate_limiter.py behind error_handler.py *)

\* settings.RATE_LIMIT_PER_MINUTE, read from the environment (60 when not
\* set); a small limit is reached within a few requests
RATE_LIMIT_PER_MINUTE == 2

\* the clock stops here
MaxTime == 400

\* self.cleanup_interval
cleanup_interval == 300

\* the seconds between two looks at the clock
TickSteps == {20, 40, 320}

ClientIps == {"10.0.0.1", "10.0.0.2"}
HealthPaths == {"/health", "/ready"}
Paths == HealthPaths \cup {"/api/analyze"}

\* timedelta.seconds of a difference of d seconds: the days are left out
timedelta_seconds(d) == d % 86400

\* self.requests[client_ip] of the defaultdict
requests_of(reqs, client_ip) ==
    IF client_ip \in DOMAIN reqs THEN reqs[client_ip] ELSE <<>>

\* _check_rate_limit at time t: the pruned list is stored, and the answer is
\* whether it is still under the limit
check_rate_limit(reqs, client_ip, t) ==
    LET kept == SelectSeq(requests_of(reqs, client_ip),
                          LAMBDA req_time : timedelta_seconds(t - req_time) < 60)
    IN  [requests |-> dict_set(reqs, client_ip, kept),
         within |-> ~(Len(kept) >= RATE_LIMIT_PER_MINUTE)]

\* _cleanup at time t
cleanup(reqs, t) ==
    LET kept(client_ip) == SelectSeq(reqs[client_ip], LAMBDA req_time : req_time > t - 300)
    IN  [client_ip \in {c \in DOMAIN reqs : kept(c) # <<>>} |-> kept(client_ip)]

\* what dispatch leaves behind: the dict, the cleanup time, and either the
\* response of call_next or the exception raised
Outcome(reqs, cleaned_at, exc, status, forwarded, recorded) ==
    [requests |-> reqs, last_cleanup |-> cleaned_at, exc |-> exc, status |-> status,
     forwarded |-> forwarded, recorded |-> recorded, rejected |-> ~forwarded]

\* the response of the application behind the middleware
AppStatus == 200

\* RateLimitMiddleware.dispatch at time t
rate_limit_dispatch(reqs, cleaned_at, client_ip, path, t) ==
    IF path \in HealthPaths
    THEN Outcome(reqs, cleaned_at, FALSE, AppStatus, TRUE, FALSE)
    ELSE LET due == timedelta_seconds(t - cleaned_at) > cleanup_interval
             cleaned == IF due THEN cleanup(reqs, t) ELSE reqs
             at == IF due THEN t ELSE cleaned_at
             checked == check_rate_limit(cleaned, client_ip, t)
         IN  IF ~checked.within
             THEN Outcome(checked.requests, at, TRUE, 429, FALSE, FALSE)
             ELSE Outcome(dict_set(checked.requests, client_ip,
                                   Append(checked.requests[client_ip], t)),
                          at, FALSE, AppStatus, TRUE, TRUE)

\* ErrorHandlerMiddleware.dispatch around it: every exception that comes out
\* of call_next becomes a response with status 500
error_handler_dispatch(outcome) ==
    IF outcome.exc THEN [outcome EXCEPT !.exc = FALSE, !.status = 500] ELSE outcome

\* the forwarded requests of a client that are less than 60 seconds old
forwards_of(client_ip) ==
    IF client_ip \in DOMAIN recent_forwards THEN recent_forwards[client_ip] ELSE <<>>

\* one request passes through the two middlewares
RlDispatch ==
    /\ pc = "rate_limit"
    /\ \E client_ip \in ClientIps, path \in Paths :
          LET outcome == error_handler_dispatch(
                             rate_limit_dispatch(requests, last_cleanup, client_ip, path, now))
          IN  /\ requests' = outcome.requests
              /\ last_cleanup' = outcome.last_cleanup
              /\ last_response' = [client_ip |-> client_ip, path |-> path,
                                   status |-> outcome.status,
                                   forwarded |-> outcome.forwarded,
                                   recorded |-> outcome.recorded,
                                   rejected |-> outcome.rejected]
              /\ recent_forwards' =
                     IF outcome.forwarded /\ path \notin HealthPaths
                     THEN dict_set(recent_forwards, client_ip,
                                   Append(forwards_of(client_ip), now))
                     ELSE recent_forwards
    /\ UNCHANGED <<now, core_vars, ws_vars>>

\* time passes
RlTick ==
    /\ pc = "rate_limit"
    /\ \E d \in TickSteps :
          /\ now + d <= MaxTime
          /\ now' = now + d
          /\ recent_forwards' =
                 [client_ip \in DOMAIN recent_forwards |->
                     SelectSeq(recent_forwards[client_ip],
                               LAMBDA sent : (now + d) - sent < 60)]
    /\ UNCHANGED <<requests, last_cleanup, last_response, core_vars, ws_vars>>

\* everything but the middleware is idle
InitRateLimit ==
    /\ pc = "rate_limit"
    /\ module_results = NoEntries
    /\ ensemble = [kind |-> "unavailable", val |-> 0]
    /\ ml_result = NotCalled
    /\ mod_idx = 0
    /\ analyzers = AnalyzersIdle
    /\ hp_env = HpIdleEnv
    /\ hp = HpIdle
    /\ client = ClientIdle
    /\ contract_info = NoContractInfo
    /\ features = NoFeatures
    /\ honeypot_result = NoHoneypotResult
    /\ response = NoResponse
    /\ WebSocketManagerInit
    /\ RateLimitMiddlewareInit

NextRateLimit ==
    \/ RlDispatch
    \/ RlTick

SpecRateLimit == InitRateLimit /\ [][NextRateLimit]_vars

\* no client has more forwarded requests within 60 seconds than the limit
WithinLimit ==
    \A client_ip \in ClientIps : Len(forwards_of(client_ip)) <= RATE_LIMIT_PER_MINUTE

\* C30: for every client at most RATE_LIMIT_PER_MINUTE requests to paths
\* other than /health and /ready are forwarded within 60 seconds; a request
\* over the limit is neither forwarded nor recorded and is answered with
\* status 429; a request to /health or /ready is forwarded, never recorded
\* and never rejected
C30_AsStated ==
    /\ WithinLimit
    /\ last_response.rejected =>
          /\ ~last_response.forwarded
          /\ ~last_response.recorded
          /\ last_response.status = 429
    /\ last_response.path \in HealthPaths =>
          /\ last_response.forwarded
          /\ ~last_response.recorded
          /\ ~last_response.rejected

====
